---- MODULE Spec2Model ----
(***************************************************************************)
(* A model of the DS-PAL analysis engine (app/services/analysis_engine.py): *)
(* categorical encoding, preprocessing, the auto-k search, clustering with  *)
(* its quality score, cluster profiling and the run() pipeline.             *)
(*                                                                          *)
(* Data frames are modelled concretely: a frame has a row index (a set of   *)
(* row labels) and a sequence of named columns; a cell is {} when it is     *)
(* missing (NaN / None / NaT) and {v} when it holds the value v.            *)
(***************************************************************************)
EXTENDS Integers, Sequences, FiniteSets, TLC

VARIABLES
    enc_call,      \* the arguments of the encode_categoricals call under study
    enc_result,    \* what encode_categoricals returned ("pending" before the call)
    pre_call,      \* the arguments of the preprocess call under study
    pre_result,    \* what preprocess returned or raised ("pending" before the call)
    k_call,        \* find_optimal_k: the frame's row count and what k-means does on it
    k_result,      \* find_optimal_k: best_k and the candidates that were scored
    cl_call,       \* cluster(): algorithm, n_clusters and the labels the model fits
    cl_result,     \* cluster(): (labels, n_clusters, silhouette, params) or the error
    cl_fitted,     \* cluster(): the estimators whose fit the call has run
    pf_call,       \* profile_clusters: labels, one feature's values, its label_mapping
    pf_result,     \* profile_clusters: the list of ClusterProfile
    run_call,      \* run(): the dataset and parameters both invocations receive
    run_pc,        \* run(): the step each of the two invocations is at
    run_env,       \* run(): the locals of each invocation (prep, labels, ...)
    run_trace,     \* run(): the steps each invocation has executed, in order
    run_out,       \* run(): the AnalysisOutput or the error each invocation ended with
    np_global_rng, \* the state of numpy's process-global random generator
    os_entropy,    \* how many random UUIDs the operating system has handed out
    cls_call,      \* _classify_column: the column (a Series) under study
    cls_result,    \* _classify_column: the classification it returned
    eps_call,      \* _auto_eps: the points and min_samples
    eps_result,    \* _auto_eps: the eps it returned, or the error
    mem_call,      \* the engine function called on the caller's dataset, its arguments
    mem_heap,      \* the data frames in memory, by object identity
    mem_result,    \* what that call returned or raised
    web_call,      \* POST /analyze: the form and what each collaborator does, per request
    web_pc,        \* POST /analyze: where each request's handler is suspended
    web_resp,      \* POST /analyze: the response each request got
    pending_analyses, \* app.state.pending_analyses
    web_clock,     \* time.time(), in seconds
    viz_call,      \* generate_all: the analysis, by the generators that raise on it
    viz_result,    \* generate_all: the charts, the generators tried, the warnings logged
    tk_db,         \* the tickets table
    tk_proc,       \* the ticket_service calls in flight: arguments, position, locals
    sv_proc,       \* the save / detail / insights requests in flight
    db_analyses,   \* the analyses table: how often each id was written
    served         \* the pending entries the endpoints returned or persisted, with their age

vars == <<enc_call, enc_result, pre_call, pre_result, k_call, k_result,
          cl_call, cl_result, cl_fitted, pf_call, pf_result,
          run_call, run_pc, run_env, run_trace, run_out, np_global_rng, os_entropy,
          cls_call, cls_result, eps_call, eps_result, mem_call, mem_heap, mem_result,
          web_call, web_pc, web_resp, pending_analyses, web_clock,
          viz_call, viz_result, tk_db, tk_proc, sv_proc, db_analyses, served>>

encVars == <<enc_call, enc_result>>
preVars == <<pre_call, pre_result>>
kVars   == <<k_call, k_result>>
clVars  == <<cl_call, cl_result, cl_fitted>>
pfVars  == <<pf_call, pf_result>>
runVars == <<run_call, run_pc, run_env, run_trace, run_out, np_global_rng, os_entropy>>
clsVars == <<cls_call, cls_result>>
epsVars == <<eps_call, eps_result>>
memVars == <<mem_call, mem_heap, mem_result>>
webVars == <<web_call, web_pc, web_resp, pending_analyses, web_clock>>
vizVars == <<viz_call, viz_result>>
tkVars  == <<tk_db, tk_proc>>
svVars  == <<sv_proc, db_analyses, served>>

\* A function that has not been called has no arguments and no result.
\* Results are records with a "kind"; so are these two markers.
NotCalled == [kind |-> "not called"]
Pending   == [kind |-> "pending"]

EncIdle == enc_call = NotCalled /\ enc_result = NotCalled
PreIdle == pre_call = NotCalled /\ pre_result = NotCalled
KIdle   == k_call = NotCalled /\ k_result = NotCalled
ClIdle  == cl_call = NotCalled /\ cl_result = NotCalled /\ cl_fitted = {}
PfIdle  == pf_call = NotCalled /\ pf_result = NotCalled
RunIdle == /\ run_call = NotCalled /\ run_pc = NotCalled /\ run_env = NotCalled
           /\ run_trace = NotCalled /\ run_out = NotCalled
           /\ np_global_rng = 0 /\ os_entropy = 0
ClsIdle == cls_call = NotCalled /\ cls_result = NotCalled
EpsIdle == eps_call = NotCalled /\ eps_result = NotCalled
MemIdle == mem_call = NotCalled /\ mem_heap = NotCalled /\ mem_result = NotCalled
WebIdle == /\ web_call = NotCalled /\ web_pc = NotCalled /\ web_resp = NotCalled
           /\ pending_analyses = NotCalled /\ web_clock = 0
VizIdle == viz_call = NotCalled /\ viz_result = NotCalled
TkIdle  == tk_db = NotCalled /\ tk_proc = NotCalled
SvIdle  == sv_proc = NotCalled /\ db_analyses = NotCalled /\ served = NotCalled

-----------------------------------------------------------------------------
(* Generic helpers.                                                         *)

Max(a, b) == IF a >= b THEN a ELSE b
Min(a, b) == IF a <= b THEN a ELSE b

Range(s) == {s[i] : i \in DOMAIN s}

RECURSIVE SumSeq(_)
SumSeq(s) == IF s = <<>> THEN 0 ELSE Head(s) + SumSeq(Tail(s))

RECURSIVE SumOver(_, _)
\* The sum of f[i] over i in S.
SumOver(f, S) ==
    IF S = {} THEN 0
    ELSE LET i == CHOOSE x \in S : TRUE IN f[i] + SumOver(f, S \ {i})

RECURSIVE SortedSeq(_, _)
\* The elements of S in ascending order of rank[x] (rank is injective on S).
SortedSeq(S, rank) ==
    IF S = {} THEN <<>>
    ELSE LET m == CHOOSE x \in S : \A y \in S : rank[x] <= rank[y]
         IN <<m>> \o SortedSeq(S \ {m}, rank)

IndexOf(s, x) == CHOOSE i \in DOMAIN s : s[i] = x

-----------------------------------------------------------------------------
(* Cells and columns.                                                       *)

NaN == {}                       \* a missing cell
Cell(v) == {v}                  \* a cell holding v
ValueOf(c) == CHOOSE v \in c : TRUE

\* The values an object, bool or datetime column may hold. "True" and "False"
\* stand for the Python booleans; "8" and "12" are numbers stored as text;
\* the two timestamps are dates stored as text (or datetime64 values); "a",
\* "b", "c" are plain categories and "MISSING" is a category that happens to
\* equal the encoder's sentinel.
PyBools      == {"True", "False"}
NumericText  == {"8", "12"}
DateText     == {"2024-01-05 00:00", "2024-02-06 10:00"}
PlainText    == {"a", "b", "c", "MISSING"}
\* The strings "True" and "False" (written with their quotes) and further
\* plain categories, for columns of more than three distinct values.
QuotedBools  == {"'True'", "'False'"}
MoreText     == {"d", "e", "f", "g", "h", "i", "j", "k"}
Tokens       == PyBools \cup NumericText \cup DateText \cup PlainText
                    \cup QuotedBools \cup MoreText

\* str(v) for every token, in the order Python compares strings (ASCII).
StrOrder == <<"12", "2024-01-05 00:00", "2024-02-06 10:00", "8",
              "False", "'False'", "MISSING", "True", "'True'", "a", "b", "c",
              "d", "e", "f", "g", "h", "i", "j", "k">>
StrRank == [t \in Tokens |-> IndexOf(StrOrder, t)]

\* pd.to_numeric(errors="coerce"): the number a value coerces to, NaN otherwise.
ToNumeric(t) == IF t = "8" THEN Cell(8) ELSE IF t = "12" THEN Cell(12) ELSE NaN
\* pd.to_datetime(errors="coerce"): [month, dayofweek, hour], NaT otherwise.
ToDatetime(t) ==
    IF t = "2024-01-05 00:00" THEN Cell([month |-> 1, dayofweek |-> 4, hour |-> 0])
    ELSE IF t = "2024-02-06 10:00" THEN Cell([month |-> 2, dayofweek |-> 1, hour |-> 10])
    ELSE NaN

\* A frame: [index |-> set of row labels, columns |-> sequence of columns];
\* a column: [name, dtype, cells], cells a function on the frame's index.
ColumnNames(df) == [i \in DOMAIN df.columns |-> df.columns[i].name]
HasColumn(df, c) == \E i \in DOMAIN df.columns : df.columns[i].name = c
Column(df, c) == df.columns[CHOOSE i \in DOMAIN df.columns : df.columns[i].name = c]
NRows(df) == Cardinality(df.index)
EmptyFrame(index) == [index |-> index, columns |-> <<>>]

\* series.count(), series.dropna().unique(), series.nunique()
NonNullRows(cells) == {i \in DOMAIN cells : cells[i] # NaN}
CountNonNull(cells) == Cardinality(NonNullRows(cells))
UniqueValues(cells) == UNION {cells[i] : i \in DOMAIN cells}
NUnique(cells) == Cardinality(UniqueValues(cells))

\* df.loc[index]: the rows of df whose label is in index.
LocRows(df, index) ==
    [index |-> index,
     columns |-> [i \in DOMAIN df.columns |->
        [df.columns[i] EXCEPT !.cells = [r \in index |-> df.columns[i].cells[r]]]]]

\* The median of a non-empty set of rows of an integer column: the middle
\* value, or the mean of the two middle values (cells hold even numbers, so
\* the mean of two of them is an integer again).
RECURSIVE SortedValues(_, _)
SortedValues(cells, rows) ==
    IF rows = {} THEN <<>>
    ELSE LET m == CHOOSE r \in rows :
                    \A q \in rows : ValueOf(cells[r]) <= ValueOf(cells[q])
         IN <<ValueOf(cells[m])>> \o SortedValues(cells, rows \ {m})

Median(cells) ==
    LET s == SortedValues(cells, NonNullRows(cells))
        n == Len(s)
    IN IF n = 0 THEN NaN
       ELSE IF n % 2 = 1 THEN Cell(s[(n + 1) \div 2])
       ELSE Cell((s[n \div 2] + s[n \div 2 + 1]) \div 2)

\* series.fillna(value)
FillNa(cells, value) == [r \in DOMAIN cells |-> IF cells[r] = NaN THEN value ELSE cells[r]]

-----------------------------------------------------------------------------
(* encode_categoricals (analysis_engine.py, 31-192).                        *)

cardinality_threshold_default == 10
max_total_features_default == 100

IntColumn(name, cells) == [name |-> name, dtype |-> "int", cells |-> cells]

\* series.map({True: 1, False: 0, "True": 1, "False": 0}).fillna(0).astype(int)
BooleanEncode(series) ==
    [r \in DOMAIN series |->
        IF series[r] = Cell("True") THEN Cell(1) ELSE Cell(0)]

\* The distinct values of a series in the order of their first appearance,
\* going down the rows (what pd.factorize or series.unique() would give).
RECURSIVE FirstObservedFrom(_, _, _)
FirstObservedFrom(series, rows, seen) ==
    IF rows = {} THEN seen
    ELSE LET r == CHOOSE x \in rows : \A y \in rows : x <= y
             v == series[r]
         IN FirstObservedFrom(series, rows \ {r},
                IF v = NaN \/ ValueOf(v) \in Range(seen) THEN seen
                ELSE Append(seen, ValueOf(v)))

\* Lines 142-150 with the categories numbered in order of first appearance.
LabelClassesFirstObserved(series) == FirstObservedFrom(series, DOMAIN series, <<>>)

\* LabelEncoder().fit(series.astype(str)).classes_: the distinct strings, sorted.
LabelClasses(series) == SortedSeq(UniqueValues(series), StrRank)
\* LabelEncoder().fit_transform(series.astype(str)): each string's position in classes_.
LabelTransform(series) ==
    LET classes == LabelClasses(series)
    IN [r \in DOMAIN series |-> Cell(IndexOf(classes, ValueOf(series[r])) - 1)]

LabelInfo(col, nunique, series) ==
    [original_column |-> col, encoding_type |-> "label", new_columns |-> <<col>>,
     cardinality |-> nunique, label_mapping |-> LabelClasses(series)]

\* drop_first=False: an indicator column for every distinct string.
GetDummiesKeepFirst(col, series) ==
    LET cats == SortedSeq(UniqueValues(series), StrRank)
    IN [j \in 1 .. Len(cats) |->
          IntColumn(col \o "_" \o cats[j],
                    [r \in DOMAIN series |->
                        IF series[r] = Cell(cats[j]) THEN Cell(1) ELSE Cell(0)])]

\* pd.get_dummies(series.astype(str), prefix=col, drop_first=True).astype(int):
\* one indicator column per distinct string but the first, in sorted order.
GetDummies(col, series) ==
    LET cats == LabelClasses(series)
    IN [j \in 1 .. (Len(cats) - 1) |->
          IntColumn(col \o "_" \o cats[j + 1],
                    [r \in DOMAIN series |->
                        IF series[r] = Cell(cats[j + 1]) THEN Cell(1) ELSE Cell(0)])]

\* The calendar components of a datetime series; NaT counts as 0.
DtPart(series, part) ==
    [r \in DOMAIN series |->
        LET d == ToDatetime(ValueOf(series[r]))
        IN IF series[r] = NaN \/ d = NaN THEN Cell(0)
           ELSE IF part = "month" THEN Cell(ValueOf(d).month)
           ELSE IF part = "day_of_week" THEN Cell(ValueOf(d).dayofweek)
           ELSE Cell(ValueOf(d).hour)]

DatetimeParts(col, series) ==
    LET hour == DtPart(series, "hour")
        base == << IntColumn(col \o "_month", DtPart(series, "month")),
                   IntColumn(col \o "_day_of_week", DtPart(series, "day_of_week")) >>
    IN IF SumOver([r \in DOMAIN hour |-> ValueOf(hour[r])], DOMAIN hour) > 0
       THEN Append(base, IntColumn(col \o "_hour", hour))
       ELSE base

\* pd.to_numeric(series, errors="coerce") with the failures set to the median.
NumericCoerce(series) ==
    LET coerced == [r \in DOMAIN series |->
                       IF series[r] = NaN THEN NaN ELSE ToNumeric(ValueOf(series[r]))]
    IN FillNa(coerced, Median(coerced))

\* One iteration of the loop over cat_df.columns (lines 62-151). acc holds
\* encoded_parts (as the columns they hold), encoding_info, skipped_columns
\* and one_hot_candidates.
EncodeColumn(df, col, cardinality_threshold, acc) ==
    LET c == Column(df, col)
        series == c.cells
        dtype == c.dtype
        non_null == NonNullRows(series)
        nunique == NUnique(series)
        n_dates == Cardinality({r \in non_null : ToDatetime(ValueOf(series[r])) # NaN})
        n_numbers == Cardinality({r \in non_null : ToNumeric(ValueOf(series[r])) # NaN})
        is_datetime ==
            \/ dtype = "datetime"
            \/ /\ dtype = "object"
               /\ Cardinality(non_null) > 0
               /\ 2 * n_dates > Cardinality(non_null)
        filled == FillNa(series, Cell("MISSING"))
    IN
    IF nunique <= 1 THEN
        [acc EXCEPT !.skipped = Append(@, [column |-> col, reason |-> "Single value"])]
    ELSE IF NRows(df) > 0 /\ 10 * nunique > 9 * NRows(df) THEN
        [acc EXCEPT !.skipped = Append(@, [column |-> col,
            reason |-> "ID-like (" \o ToString(nunique) \o " unique values)"])]
    ELSE IF dtype = "bool" \/ (dtype = "object" /\ UniqueValues(series) \subseteq PyBools) THEN
        [acc EXCEPT !.parts = Append(@, IntColumn(col, BooleanEncode(series))),
                    !.info = Append(@, [original_column |-> col, encoding_type |-> "boolean",
                                        new_columns |-> <<col>>, cardinality |-> 2])]
    ELSE IF is_datetime THEN
        LET parts == DatetimeParts(col, series)
        IN [acc EXCEPT !.parts = @ \o parts,
                       !.info = Append(@, [original_column |-> col, encoding_type |-> "datetime",
                                           new_columns |-> [j \in DOMAIN parts |-> parts[j].name],
                                           cardinality |-> nunique])]
    ELSE IF dtype = "object" /\ 10 * n_numbers > 8 * Cardinality(non_null) THEN
        [acc EXCEPT !.parts = Append(@, IntColumn(col, NumericCoerce(series))),
                    !.info = Append(@, [original_column |-> col, encoding_type |-> "numeric-coerce",
                                        new_columns |-> <<col>>, cardinality |-> nunique])]
    ELSE IF nunique <= cardinality_threshold THEN
        [acc EXCEPT !.candidates = Append(@, [col |-> col, nunique |-> nunique, series |-> filled])]
    ELSE
        [acc EXCEPT !.parts = Append(@, IntColumn(col, LabelTransform(filled))),
                    !.info = Append(@, LabelInfo(col, nunique, filled))]

RECURSIVE EncodeColumns(_, _, _, _)
EncodeColumns(df, cols, cardinality_threshold, acc) ==
    IF cols = <<>> THEN acc
    ELSE EncodeColumns(df, Tail(cols), cardinality_threshold,
                       EncodeColumn(df, Head(cols), cardinality_threshold, acc))

\* one_hot_candidates.sort(key=lambda x: x[1], reverse=True): by cardinality,
\* highest first; the sort is stable, equal cardinalities keep their order.
RECURSIVE SortCandidates(_)
SortCandidates(cands) ==
    IF cands = <<>> THEN <<>>
    ELSE LET i == CHOOSE j \in DOMAIN cands :
                    /\ \A m \in DOMAIN cands : cands[m].nunique <= cands[j].nunique
                    /\ \A m \in 1 .. (j - 1) : cands[m].nunique < cands[j].nunique
         IN <<cands[i]>> \o
            SortCandidates([m \in 1 .. (Len(cands) - 1) |->
                               IF m < i THEN cands[m] ELSE cands[m + 1]])

\* Whether a candidate is downgraded to label encoding (line 163).
ExceedsCap(current_features, new_cols, max_total_features) ==
    current_features + new_cols > max_total_features

\* One iteration of the loop over the one-hot candidates (lines 160-186).
\* acc.current_features is the running total of output columns.
ExpandCandidate(cand, max_total_features, acc) ==
    LET new_cols == cand.nunique - 1
        dummies == GetDummies(cand.col, cand.series)
    IN IF ExceedsCap(acc.current_features, new_cols, max_total_features)
       THEN [acc EXCEPT
                !.parts = Append(@, IntColumn(cand.col, LabelTransform(cand.series))),
                !.info = Append(@, LabelInfo(cand.col, cand.nunique, cand.series)),
                !.downgraded = Append(@, cand.col),
                !.current_features = @ + 1]
       ELSE [acc EXCEPT
                !.parts = @ \o dummies,
                !.info = Append(@, [original_column |-> cand.col, encoding_type |-> "one-hot",
                                    new_columns |-> [j \in DOMAIN dummies |-> dummies[j].name],
                                    cardinality |-> cand.nunique]),
                !.current_features = @ + Len(dummies)]

RECURSIVE ExpandCandidates(_, _, _)
ExpandCandidates(cands, max_total_features, acc) ==
    IF cands = <<>> THEN acc
    ELSE ExpandCandidates(Tail(cands), max_total_features,
                          ExpandCandidate(Head(cands), max_total_features, acc))

EncodingResult(encoded_df, encoding_info, skipped_columns, downgraded) ==
    [kind |-> "EncodingResult", encoded_df |-> encoded_df,
     encoding_info |-> encoding_info, skipped_columns |-> skipped_columns,
     downgraded |-> downgraded]     \* downgraded: the columns the log line 165 names

\* [c for c in categorical_columns if c in df.columns]
RECURSIVE ExistingColumns(_, _)
ExistingColumns(df, cols) ==
    IF cols = <<>> THEN <<>>
    ELSE (IF HasColumn(df, Head(cols)) THEN <<Head(cols)>> ELSE <<>>)
         \o ExistingColumns(df, Tail(cols))

\* [c for c in cat_df.columns if cat_df[c].count() >= len(cat_df) * 0.5]
RECURSIVE ValidColumns(_, _)
ValidColumns(df, cols) ==
    IF cols = <<>> THEN <<>>
    ELSE (IF 2 * CountNonNull(Column(df, Head(cols)).cells) >= NRows(df)
          THEN <<Head(cols)>> ELSE <<>>)
         \o ValidColumns(df, Tail(cols))

encode_categoricals(df, categorical_columns, cardinality_threshold, max_total_features) ==
    LET cat_cols == ExistingColumns(df, categorical_columns)
        valid_cols == ValidColumns(df, cat_cols)
        looped == EncodeColumns(df, valid_cols, cardinality_threshold,
                     [parts |-> <<>>, info |-> <<>>, skipped |-> <<>>, candidates |-> <<>>])
        done == ExpandCandidates(SortCandidates(looped.candidates), max_total_features,
                     [parts |-> looped.parts, info |-> looped.info, downgraded |-> <<>>,
                      current_features |-> Len(looped.parts)])
    IN IF categorical_columns = <<>> \/ cat_cols = <<>>
       THEN EncodingResult(EmptyFrame(df.index), <<>>, <<>>, <<>>)
       ELSE EncodingResult([index |-> df.index, columns |-> done.parts],
                           done.info, looped.skipped, done.downgraded)

-----------------------------------------------------------------------------
(* The datasets and arguments the checks draw from.                         *)

MaxRows == 4          \* datasets have 1 .. MaxRows rows
MaxNulls == 2         \* a generated column starts with 0 .. MaxNulls missing cells
MaxThreshold == 3     \* cardinality_threshold is MaxThreshold - 1 or MaxThreshold
MaxCap == 3           \* max_total_features ranges over 1 .. MaxCap

\* The value sets a generated column cycles through.
Alphabets == { <<"a", "b", "c", "MISSING">>, <<"c", "MISSING", "a", "b">>,
               <<"True", "False">>,
               <<"8", "12", "a">>,
               <<"2024-01-05 00:00", "2024-02-06 10:00", "a">> }
TextAlphabets == { <<"a", "b", "c", "MISSING">>, <<"c", "MISSING", "a", "b">> }

\* The column of n rows whose first `nulls` cells are missing and whose other
\* cells cycle through the first k values of the alphabet, starting at off.
ShapeCells(n, alphabet, k, off, nulls) ==
    [r \in 1 .. n |-> IF r <= nulls THEN NaN ELSE Cell(alphabet[((r + off) % k) + 1])]

ObjectColumns(n, alphabets, name) ==
    { [name |-> name, dtype |-> "object", cells |-> ShapeCells(n, a, k, off, nulls)] :
        <<a, k, off, nulls>> \in
            { t \in alphabets \X (1 .. 4) \X (0 .. 1) \X (0 .. MaxNulls) :
                t[2] <= Len(t[1]) /\ t[4] <= n } }

\* Columns of dtype bool (never missing) and datetime64 (NaT when missing).
TypedColumns(n, name) ==
    { [name |-> name, dtype |-> "bool",
       cells |-> ShapeCells(n, <<"True", "False">>, k, 0, 0)] : k \in 1 .. 2 }
    \cup
    { [name |-> name, dtype |-> "datetime",
       cells |-> ShapeCells(n, <<"2024-01-05 00:00", "2024-02-06 10:00">>, k, 0, nulls)] :
         <<k, nulls>> \in (1 .. 2) \X (0 .. Min(1, n)) }

Thresholds == (MaxThreshold - 1) .. MaxThreshold
Caps == 1 .. MaxCap

-----------------------------------------------------------------------------
(* Specification SpecEncode: one call of encode_categoricals.               *)

EncodeArgs(df, cats, t, m) ==
    [df |-> df, categorical_columns |-> cats,
     cardinality_threshold |-> t, max_total_features |-> m]

\* One column (selected, not selected, or selected next to a column the
\* dataset does not have), or two columns selected in either order.
InitEncode ==
    /\ \E n \in 1 .. MaxRows, t \in Thresholds, m \in Caps :
       \E c1 \in ObjectColumns(n, Alphabets, "c1") \cup TypedColumns(n, "c1") :
          \/ \E cats \in { <<>>, <<"c1">>, <<"ghost">>, <<"ghost", "c1">> } :
                enc_call = EncodeArgs([index |-> 1 .. n, columns |-> <<c1>>], cats, t, m)
          \/ \E c2 \in ObjectColumns(n, TextAlphabets, "c2"),
                cats \in { <<"c1", "c2">>, <<"c2", "c1">> } :
                enc_call = EncodeArgs([index |-> 1 .. n, columns |-> <<c1, c2>>], cats, t, m)
    /\ enc_result = Pending
    /\ PreIdle /\ KIdle /\ ClIdle /\ PfIdle /\ RunIdle
    /\ ClsIdle /\ EpsIdle /\ MemIdle /\ WebIdle
    /\ VizIdle /\ TkIdle /\ SvIdle

\* The call encode_categoricals(df, categorical_columns, cardinality_threshold,
\* max_total_features) runs to its return.
EncodeCall ==
    /\ enc_result = Pending
    /\ enc_result' = encode_categoricals(enc_call.df, enc_call.categorical_columns,
                        enc_call.cardinality_threshold, enc_call.max_total_features)
    /\ UNCHANGED <<enc_call, preVars, kVars, clVars, pfVars, runVars,
                   clsVars, epsVars, memVars, webVars,
                   vizVars, tkVars, svVars>>

NextEncode == EncodeCall

SpecEncode == InitEncode /\ [][NextEncode]_vars

-----------------------------------------------------------------------------
(* Claims about encode_categoricals, checked under SpecEncode.              *)

EncodeReturned == enc_result.kind = "EncodingResult"

\* The columns of the encoded frame that an encoding_info entry names.
ContributedColumns(result, entry) ==
    {j \in DOMAIN result.encoded_df.columns :
        result.encoded_df.columns[j].name \in Range(entry.new_columns)}

\* C3 (as claimed): the frame encode_categoricals returns never has more than
\* max_total_features columns.
C3_FrameWithinCap ==
    EncodeReturned =>
        Len(enc_result.encoded_df.columns) <= enc_call.max_total_features

\* C10: a text column without missing values that is one-hot encoded, with
\* k distinct values, contributes exactly k - 1 columns (2 <= k <= threshold);
\* a label-encoded column contributes exactly one column, whose values lie in
\* 0 .. d - 1 for d the number of distinct categories encoded (the column's
\* distinct values, and the sentinel when cells were missing), and are exactly
\* 0 .. k - 1 when nothing was missing.
C10_EncodingWidth ==
    EncodeReturned =>
        \A i \in DOMAIN enc_result.encoding_info :
            LET e == enc_result.encoding_info[i]
                src == Column(enc_call.df, e.original_column).cells
                k == NUnique(src)
                d == NUnique(FillNa(src, Cell("MISSING")))
                cols == ContributedColumns(enc_result, e)
                complete == CountNonNull(src) = NRows(enc_call.df)
            IN /\ (e.encoding_type = "one-hot" /\ complete) =>
                    /\ 2 <= k /\ k <= enc_call.cardinality_threshold
                    /\ Len(e.new_columns) = k - 1
                    /\ Cardinality(cols) = k - 1
               /\ e.encoding_type = "label" =>
                    /\ Len(e.new_columns) = 1
                    /\ Cardinality(cols) = 1
                    /\ \A j \in cols :
                        LET vals == UniqueValues(enc_result.encoded_df.columns[j].cells)
                        IN /\ vals \subseteq 0 .. (d - 1)
                           /\ complete => vals = 0 .. (k - 1)

\* C10 witness: one call that one-hot encodes a complete column of 3 categories
\* and label-encodes another column.
C10_Witness ==
    /\ EncodeReturned
    /\ \E i, j \in DOMAIN enc_result.encoding_info :
        LET e == enc_result.encoding_info[i]
            f == enc_result.encoding_info[j]
            src == Column(enc_call.df, e.original_column).cells
        IN /\ e.encoding_type = "one-hot" /\ NUnique(src) = 3
           /\ CountNonNull(src) = NRows(enc_call.df)
           /\ f.encoding_type = "label"

\* The cells the label encoder sees of a column: missing cells hold "MISSING".
EncoderView(call, col) == FillNa(Column(call.df, col).cells, Cell("MISSING"))

\* The label-encoded entries of the returned encoding_info.
LabelEntries(result) ==
    {i \in DOMAIN result.encoding_info : result.encoding_info[i].encoding_type = "label"}

\* The one column of the encoded frame that a label entry names.
EncodedCells(result, entry) ==
    result.encoded_df.columns[CHOOSE j \in DOMAIN result.encoded_df.columns :
        result.encoded_df.columns[j].name = entry.new_columns[1]].cells

\* C11 (as claimed): label_mapping lists the categories of a label-encoded
\* column in the order in which they are first observed going down the
\* column, and a row encoded as i holds the category label_mapping[i].
C11_FirstObservedOrder ==
    EncodeReturned =>
        \A i \in LabelEntries(enc_result) :
            LET e == enc_result.encoding_info[i]
                seen == EncoderView(enc_call, e.original_column)
                codes == EncodedCells(enc_result, e)
            IN /\ e.label_mapping = FirstObservedFrom(seen, DOMAIN seen, <<>>)
               /\ \A r \in DOMAIN codes :
                    seen[r] = Cell(e.label_mapping[ValueOf(codes[r]) + 1])

\* C11 (amended): label_mapping lists the distinct categories of a
\* label-encoded column (a missing cell counting as the category "MISSING")
\* once each, in ascending string order whatever the order of the rows; the
\* codes are exactly 0 .. k - 1 for k the length of label_mapping, and a row
\* encoded as i holds the category label_mapping[i].
C11_LabelMappingSorted ==
    EncodeReturned =>
        \A i \in LabelEntries(enc_result) :
            LET e == enc_result.encoding_info[i]
                seen == EncoderView(enc_call, e.original_column)
                codes == EncodedCells(enc_result, e)
                m == e.label_mapping
            IN /\ Range(m) = UniqueValues(seen)
               /\ \A a, b \in DOMAIN m : a < b => StrRank[m[a]] < StrRank[m[b]]
               /\ UniqueValues(codes) = 0 .. (Len(m) - 1)
               /\ \A r \in DOMAIN codes : seen[r] = Cell(m[ValueOf(codes[r]) + 1])

\* C11 witness: a label-encoded column whose categories first appear in an
\* order other than the one label_mapping lists, one of them the sentinel
\* that stands for a missing cell.
C11_Witness ==
    /\ EncodeReturned
    /\ \E i \in LabelEntries(enc_result) :
        LET e == enc_result.encoding_info[i]
            seen == EncoderView(enc_call, e.original_column)
        IN /\ e.label_mapping # FirstObservedFrom(seen, DOMAIN seen, <<>>)
           /\ Len(e.label_mapping) >= 3
           /\ \E r \in DOMAIN seen : Column(enc_call.df, e.original_column).cells[r] = NaN

\* The selected columns that the dataset has.
SelectedColumns(call) ==
    {c \in Range(call.categorical_columns) : HasColumn(call.df, c)}

\* Whether skipped_columns names the column, with a reason.
ReportedSkipped(result, c) ==
    \E i \in DOMAIN result.skipped_columns :
        result.skipped_columns[i].column = c /\ result.skipped_columns[i].reason # ""

\* Whether the column has an encoding_info entry or a column of the encoded
\* frame (named after it, or after it and a category or calendar component).
IsEncoded(result, c) ==
    \/ \E i \in DOMAIN result.encoding_info : result.encoding_info[i].original_column = c
    \/ \E j \in DOMAIN result.encoded_df.columns :
          result.encoded_df.columns[j].name \in
              {c} \cup {c \o "_" \o t : t \in Tokens \cup {"month", "day_of_week", "hour"}}

\* C13 (as claimed): every selected column of the dataset that is constant
\* (at most one distinct non-null value) or ID-like (distinct non-null values
\* over row count above 0.9) is named in skipped_columns with a reason and
\* has neither a column in the encoded frame nor an encoding_info entry; a
\* column that is encoded is not named in skipped_columns.
C13_ConstantAndIdLikeSkipped ==
    EncodeReturned =>
        \A c \in SelectedColumns(enc_call) :
            LET nunique == NUnique(Column(enc_call.df, c).cells)
                constant == nunique <= 1
                id_like == 10 * nunique > 9 * NRows(enc_call.df)
            IN /\ (constant \/ id_like) =>
                    (ReportedSkipped(enc_result, c) /\ ~IsEncoded(enc_result, c))
               /\ IsEncoded(enc_result, c) => ~ReportedSkipped(enc_result, c)

\* C14 (as claimed): a selected column of the dataset in which at least half
\* of the cells are missing is not encoded and is named in skipped_columns;
\* a selected column that the dataset does not have is neither encoded nor
\* named in skipped_columns.
C14_HalfMissingReported ==
    EncodeReturned =>
        /\ \A c \in SelectedColumns(enc_call) :
              LET cells == Column(enc_call.df, c).cells
                  missing == NRows(enc_call.df) - CountNonNull(cells)
              IN 2 * missing >= NRows(enc_call.df) =>
                    (~IsEncoded(enc_result, c) /\ ReportedSkipped(enc_result, c))
        /\ \A c \in Range(enc_call.categorical_columns) \ SelectedColumns(enc_call) :
              /\ ~IsEncoded(enc_result, c)
              /\ \A i \in DOMAIN enc_result.skipped_columns :
                    enc_result.skipped_columns[i].column # c

-----------------------------------------------------------------------------
(* _classify_column (dataset_loader.py, 252-297).                           *)

\* The strings "True" and "False" in an object column, as opposed to the
\* Python booleans that the tokens of PyBools stand for.
BoolText == {"'True'", "'False'"}

\* pd.api.types.is_numeric_dtype: integer, float and also bool dtypes.
is_numeric_dtype(dtype) == dtype \in {"number", "bool"}
\* pd.api.types.is_datetime64_any_dtype
is_datetime64_any_dtype(dtype) == dtype = "datetime"

\* The dict _classify_column returns; None is the empty cell.
Classification(cardinality, suggested_encoding, is_id_like) ==
    [kind |-> "classification", cardinality |-> cardinality,
     suggested_encoding |-> suggested_encoding, is_id_like |-> is_id_like]

classify_column(series) ==
    LET dtype == series.dtype
        n_rows == Cardinality(DOMAIN series.cells)
        non_null == NonNullRows(series.cells)
        nunique == NUnique(series.cells)
        n_numbers == Cardinality({r \in non_null : ToNumeric(ValueOf(series.cells[r])) # NaN})
    IN IF is_numeric_dtype(dtype) THEN Classification(NaN, NaN, FALSE)
       ELSE IF is_datetime64_any_dtype(dtype) THEN Classification(NaN, NaN, FALSE)
       ELSE IF dtype = "bool" \/ (dtype = "object" /\ UniqueValues(series.cells) \subseteq PyBools)
       THEN Classification(Cell(2), Cell("boolean"), FALSE)
       ELSE IF nunique <= 1 THEN Classification(Cell(nunique), NaN, FALSE)
       ELSE IF n_rows > 0 /\ 10 * nunique > 9 * n_rows
       THEN Classification(Cell(nunique), NaN, TRUE)
       ELSE IF /\ dtype = "object" /\ Cardinality(non_null) > 0
               /\ 10 * n_numbers > 8 * Cardinality(non_null)
       THEN Classification(Cell(nunique), Cell("numeric-coerce"), FALSE)
       ELSE IF nunique <= 10 THEN Classification(Cell(nunique), Cell("one-hot"), FALSE)
       ELSE Classification(Cell(nunique), Cell("label"), FALSE)

-----------------------------------------------------------------------------
(* Specification SpecClassify: one call of _classify_column.                *)

MaxSeriesRows == 13   \* a column has 0 .. MaxSeriesRows rows

\* Eleven categories, one more than one-hot encoding takes.
Letters == <<"a", "b", "c", "d", "e", "f", "g", "h", "i", "j", "k">>

\* Object columns of Python booleans, of the strings "True" and "False", of
\* numbers stored as text (with and without a word among them) and of plain
\* categories; columns of dtype bool, int/float and datetime64.
ClassifyAlphabets ==
    { <<"True", "False">>, <<"'True'", "'False'">>, <<"8", "12", "a">>, <<"a", "8", "12">>, Letters }

ClassifySeries(n) ==
    ObjectColumns(n, ClassifyAlphabets, "col")
    \cup { [name |-> "col", dtype |-> "object", cells |-> ShapeCells(n, Letters, k, 0, nulls)] :
             <<k, nulls>> \in (5 .. Len(Letters)) \X (0 .. Min(MaxNulls, n)) }
    \cup TypedColumns(n, "col")

\* Columns of dtype int64 / float64.
ClassifyNumbers(n) ==
    { [name |-> "col", dtype |-> "number",
       cells |-> [r \in 1 .. n |-> IF r <= nulls THEN NaN ELSE Cell(2 * ((r % k) + 1))]] :
        <<k, nulls>> \in (1 .. 3) \X (0 .. Min(MaxNulls, n)) }

InitClassify ==
    /\ \E n \in 0 .. MaxSeriesRows :
          \/ \E series \in ClassifySeries(n) : cls_call = [series |-> series]
          \/ \E series \in ClassifyNumbers(n) : cls_call = [series |-> series]
    /\ cls_result = Pending
    /\ EncIdle /\ PreIdle /\ KIdle /\ ClIdle /\ PfIdle /\ RunIdle
    /\ EpsIdle /\ MemIdle /\ WebIdle
    /\ VizIdle /\ TkIdle /\ SvIdle

\* The call _classify_column(series) runs to its return.
ClassifyCall ==
    /\ cls_result = Pending
    /\ cls_result' = classify_column(cls_call.series)
    /\ UNCHANGED <<cls_call, encVars, preVars, kVars, clVars, pfVars, runVars,
                   epsVars, memVars, webVars,
                   vizVars, tkVars, svVars>>

NextClassify == ClassifyCall

SpecClassify == InitClassify /\ [][NextClassify]_vars

-----------------------------------------------------------------------------
(* Claims about _classify_column, checked under SpecClassify.               *)

\* C15 (as claimed): the classification is that of the first rule that
\* matches, in this order: a numeric or datetime dtype gives no encoding; a
\* boolean dtype, or non-null values that are all true or false (booleans or
\* their string forms), gives cardinality 2, "boolean", not ID-like; at most
\* one distinct non-null value gives no encoding; distinct values over rows
\* above 0.9 gives ID-like with no encoding; more than 80% of the non-null
\* values coercible to numbers gives "numeric-coerce"; at most 10 distinct
\* values gives "one-hot"; anything else "label".
C15_ClassifierRules ==
    cls_result # Pending =>
        LET cells == cls_call.series.cells
            dtype == cls_call.series.dtype
            n == Cardinality(DOMAIN cells)
            values == UniqueValues(cells)
            d == Cardinality(values)
            present == {r \in DOMAIN cells : cells[r] # NaN}
            numbers == {r \in present : ValueOf(cells[r]) \in NumericText}
        IN cls_result =
            (IF dtype \in {"number", "datetime"}
             THEN [kind |-> "classification", cardinality |-> {},
                   suggested_encoding |-> {}, is_id_like |-> FALSE]
             ELSE IF dtype = "bool" \/ values \subseteq (PyBools \cup BoolText)
             THEN [kind |-> "classification", cardinality |-> {2},
                   suggested_encoding |-> {"boolean"}, is_id_like |-> FALSE]
             ELSE IF d <= 1
             THEN [kind |-> "classification", cardinality |-> {d},
                   suggested_encoding |-> {}, is_id_like |-> FALSE]
             ELSE IF 10 * d > 9 * n
             THEN [kind |-> "classification", cardinality |-> {d},
                   suggested_encoding |-> {}, is_id_like |-> TRUE]
             ELSE [kind |-> "classification", cardinality |-> {d},
                   suggested_encoding |->
                        IF 10 * Cardinality(numbers) > 8 * Cardinality(present)
                        THEN {"numeric-coerce"}
                        ELSE IF d <= 10 THEN {"one-hot"} ELSE {"label"},
                   is_id_like |-> FALSE])

\* The encoding_info entries of the one-hot candidates: the one-hot entries
\* and the label entries of the columns that were downgraded.
IsCandidateEntry(result, i) ==
    \/ result.encoding_info[i].encoding_type = "one-hot"
    \/ result.encoding_info[i].original_column \in Range(result.downgraded)

\* The number of output columns of the entries before entry i.
ColumnsBefore(result, i) ==
    SumSeq([j \in 1 .. (i - 1) |-> Len(result.encoding_info[j].new_columns)])

\* The order and the running total of C27: the candidates come after every
\* other column, in descending order of cardinality, each one tried against
\* the columns counted so far; a downgraded candidate gives one label column
\* with a label_mapping and is not among the skipped columns.
ExpandedInOrder(call, result) ==
    LET info == result.encoding_info
    IN /\ \A i, j \in DOMAIN info :
              (i < j /\ IsCandidateEntry(result, i)) =>
                  /\ IsCandidateEntry(result, j)
                  /\ info[i].cardinality >= info[j].cardinality
       /\ \A i \in DOMAIN info :
              IsCandidateEntry(result, i) =>
                  (info[i].encoding_type = "label"
                      <=> ColumnsBefore(result, i) + info[i].cardinality - 1
                              > call.max_total_features)
       /\ \A c \in Range(result.downgraded) :
              /\ \E i \in DOMAIN info :
                    /\ info[i].original_column = c
                    /\ info[i].encoding_type = "label"
                    /\ info[i].new_columns = <<c>>
                    /\ "label_mapping" \in DOMAIN info[i]
                    /\ \A j \in DOMAIN info : info[j].original_column = c => j = i
              /\ Cardinality({k \in DOMAIN result.encoded_df.columns :
                                  result.encoded_df.columns[k].name = c}) = 1
              /\ ~ReportedSkipped(result, c)

\* C27 (as claimed): one-hot candidates are expanded only after every other
\* column has been encoded and counted, in descending order of cardinality;
\* a candidate downgraded because of the cap contributes exactly one
\* label-encoded column with a label_mapping, the next candidate is tried
\* against the updated running total, and the downgrade is recorded in the
\* audit trail the encoder returns (the {column, reason} records), not as a
\* skipped column.
C27_DowngradeAudited ==
    EncodeReturned =>
        /\ ExpandedInOrder(enc_call, enc_result)
        /\ \A c \in Range(enc_result.downgraded) :
              \E i \in DOMAIN enc_result.skipped_columns :
                  enc_result.skipped_columns[i].column = c

\* C26 (as claimed): in every result of encode_categoricals each
\* encoding_info entry has a non-empty new_columns list, the lists of
\* different entries are pairwise disjoint, their union is exactly the set
\* of columns of the encoded frame, and no column name occurs twice in the
\* frame.  Checked under SpecEncode and SpecEncodeDefaults.
C26_NewColumnsPartition ==
    EncodeReturned =>
        LET info == enc_result.encoding_info
            frame == enc_result.encoded_df.columns
        IN /\ \A i \in DOMAIN info : info[i].new_columns # <<>>
           /\ \A i, j \in DOMAIN info :
                  i # j => Range(info[i].new_columns) \cap Range(info[j].new_columns) = {}
           /\ UNION {Range(info[i].new_columns) : i \in DOMAIN info}
                  = {frame[k].name : k \in DOMAIN frame}
           /\ \A k, l \in DOMAIN frame : frame[k].name = frame[l].name => k = l

-----------------------------------------------------------------------------
(* Specification SpecEncodeDefaults: one call of encode_categoricals with   *)
(* its default threshold and cap, on the columns of SpecClassify; a second  *)
(* column may bear the name of an indicator column of the first.            *)

\* Numbers stored as text, under the name get_dummies gives category "b" of "col".
IndicatorNamed(n) ==
    [name |-> "col_b", dtype |-> "object", cells |-> ShapeCells(n, <<"8", "12">>, 2, 0, 0)]

\* Dates stored as text, alone and with a plain category among them.
DateColumns(n) ==
    ObjectColumns(n, { <<"2024-01-05 00:00", "2024-02-06 10:00", "a">> }, "col")

InitEncodeDefaults ==
    /\ \E n \in 1 .. MaxSeriesRows : \E series \in ClassifySeries(n) \cup DateColumns(n) :
          \/ enc_call = EncodeArgs([index |-> 1 .. n, columns |-> <<series>>], <<"col">>,
                                   cardinality_threshold_default, max_total_features_default)
          \/ \E cats \in { <<"col", "col_b">>, <<"col_b", "col">> } :
                enc_call = EncodeArgs([index |-> 1 .. n, columns |-> <<series, IndicatorNamed(n)>>],
                                      cats, cardinality_threshold_default,
                                      max_total_features_default)
    /\ enc_result = Pending
    /\ PreIdle /\ KIdle /\ ClIdle /\ PfIdle /\ RunIdle
    /\ ClsIdle /\ EpsIdle /\ MemIdle /\ WebIdle
    /\ VizIdle /\ TkIdle /\ SvIdle

SpecEncodeDefaults == InitEncodeDefaults /\ [][NextEncode]_vars

\* C22 (as claimed): for every selected column that is neither of a numeric
\* nor of a datetime dtype and has fewer than 50% missing values,
\* encode_categoricals (default threshold, cap not reached) does what
\* _classify_column decides for the column: it skips the column exactly when
\* the classifier suggests no encoding, and otherwise encodes it with the
\* encoding type the classifier suggests.
C22_EncoderFollowsClassifier ==
    (EncodeReturned /\ enc_result.downgraded = <<>>) =>
        \A c \in SelectedColumns(enc_call) :
            LET column == Column(enc_call.df, c)
                decision == classify_column(column)
                entries == {i \in DOMAIN enc_result.encoding_info :
                                enc_result.encoding_info[i].original_column = c}
            IN (/\ column.dtype \notin {"number", "bool", "datetime"}
                /\ 2 * CountNonNull(column.cells) > NRows(enc_call.df)) =>
                    /\ ReportedSkipped(enc_result, c) <=> decision.suggested_encoding = {}
                    /\ decision.suggested_encoding # {} =>
                          /\ entries # {}
                          /\ \A i \in entries :
                                {enc_result.encoding_info[i].encoding_type}
                                    = decision.suggested_encoding

-----------------------------------------------------------------------------
(* preprocess (analysis_engine.py, 195-271).                                *)

\* An Optional[List[str]] argument: None, or a list of column names.
None == [is_none |-> TRUE, list |-> <<>>]
Some(list) == [is_none |-> FALSE, list |-> list]

\* frame[[c for c in frame.columns if keep(c)]]
FilterColumns(cols, Keep(_)) == SelectSeq(cols, Keep)

IsNumber(c) == c.dtype = "number"

\* Lines 209-212: df[columns].select_dtypes(include=["number"]), an empty frame
\* for columns == [], every numeric column for columns is None. df[columns]
\* raises KeyError when a listed column is not in df.
MissingFromFrame(df, names) == {c \in Range(names) : ~HasColumn(df, c)}
SelectNumeric(df, columns) ==
    IF columns.is_none
    THEN [index |-> df.index, columns |-> FilterColumns(df.columns, IsNumber)]
    ELSE IF columns.list = <<>> THEN EmptyFrame(df.index)
    ELSE [index |-> df.index,
          columns |-> FilterColumns([i \in DOMAIN columns.list |-> Column(df, columns.list[i])],
                                    IsNumber)]

\* Line 217: the column is recorded as dropped, count < len(numeric_df) * 0.1.
RecordedOver90Missing(cells, nrows) == 10 * CountNonNull(cells) < nrows
\* Line 219: dropna(axis=1, thresh=int(threshold)) keeps the column.
KeptByThresh(cells, nrows) == CountNonNull(cells) >= nrows \div 10

\* One {"column", "reason"} entry for each column of cols that Drop selects.
DroppedRecords(cols, Drop(_), reason) ==
    LET sel == SelectSeq(cols, Drop)
    IN [i \in DOMAIN sel |-> [column |-> sel[i].name, reason |-> reason]]

\* Line 223: numeric_df.dropna(how="all"), the rows with at least one value.
RowsWithValue(frame) ==
    {r \in frame.index : \E i \in DOMAIN frame.columns : frame.columns[i].cells[r] # NaN}

\* Lines 225-227: every column's missing cells take the column's median.
ImputeMedian(frame) ==
    [frame EXCEPT !.columns = [i \in DOMAIN frame.columns |->
        [frame.columns[i] EXCEPT !.cells = FillNa(@, Median(@))]]]

\* pd.concat([a, b], axis=1) of two frames on the same index.
ConcatColumns(a, b) == [index |-> a.index, columns |-> a.columns \o b.columns]

\* combined_df.var() == 0 for a column: at least two values, all equal
\* (the variance of fewer than two values is NaN, and NaN == 0 is false).
ZeroVariance(cells) == CountNonNull(cells) >= 2 /\ NUnique(cells) = 1

\* Integer square root, by bisection on lo .. hi.
RECURSIVE ISqrtIn(_, _, _)
ISqrtIn(v, lo, hi) ==
    IF lo >= hi THEN lo
    ELSE LET mid == (lo + hi + 1) \div 2
         IN IF mid * mid <= v THEN ISqrtIn(v, mid, hi) ELSE ISqrtIn(v, lo, mid - 1)
ISqrt(v) == ISqrtIn(v, 0, Min(v, 46340))

\* StandardScaler on one column, in hundredths: (x - mean) / std with the
\* population standard deviation; a column without spread is only centred
\* (scale 1) and missing cells stay missing.
ScaleUnit == 100
StandardizeCells(cells) ==
    LET rows == NonNullRows(cells)
        n == Cardinality(rows)
        x == [r \in rows |-> ValueOf(cells[r])]
        s1 == SumOver(x, rows)
        s2 == SumOver([r \in rows |-> x[r] * x[r]], rows)
        d == n * s2 - s1 * s1               \* n^2 * variance
        root == ISqrt(d * ScaleUnit * ScaleUnit)
    IN [r \in DOMAIN cells |->
          IF cells[r] = NaN THEN NaN
          ELSE IF d = 0 THEN Cell(0)
          ELSE Cell(((n * x[r] - s1) * ScaleUnit * ScaleUnit) \div root)]

Standardize(frame) ==
    [frame EXCEPT !.columns = [i \in DOMAIN frame.columns |->
        [frame.columns[i] EXCEPT !.cells = StandardizeCells(@)]]]

PreprocessResult(combined_df, encoding_info, dropped_columns) ==
    [kind |-> "PreprocessResult", numeric_df |-> combined_df,
     scaled_df |-> Standardize(combined_df), feature_names |-> ColumnNames(combined_df),
     encoding_info |-> encoding_info, dropped_columns |-> dropped_columns]

\* Lines 252-258.
TooFewFeatures(feature_names, dropped_columns) ==
    [kind |-> "ValueError", message |-> "Need at least 2 features for analysis",
     found |-> Len(feature_names), dropped |-> dropped_columns]

\* Lines 243-271: the zero-variance drop, the floor of 2 features, scaling.
PreprocessCombined(combined_df, encoding_info, dropped) ==
    LET zero_var_cols == {combined_df.columns[i].name : i \in
                            {j \in DOMAIN combined_df.columns :
                                ZeroVariance(combined_df.columns[j].cells)}}
        IsZeroVar(c) == c.name \in zero_var_cols
        NotZeroVar(c) == c.name \notin zero_var_cols
        feature_names == ColumnNames([combined_df EXCEPT !.columns = FilterColumns(@, NotZeroVar)])
        dropped_columns ==
            dropped \o DroppedRecords(combined_df.columns, IsZeroVar, "Zero variance")
    IN IF Len(feature_names) < 2
       THEN TooFewFeatures(feature_names, dropped_columns)
       ELSE IF combined_df.index = {}
       THEN [kind |-> "ValueError",
             message |-> "Found array with 0 sample(s) while a minimum of 1 is required by StandardScaler"]
       ELSE PreprocessResult([combined_df EXCEPT !.columns = FilterColumns(@, NotZeroVar)],
                             encoding_info, dropped_columns)

\* Lines 233-238: what the encoder returned joins the numeric columns.
PreprocessEncoded(numeric_df, over90, enc) ==
    PreprocessCombined(IF enc.encoded_df.columns # <<>> /\ enc.encoded_df.index # {}
                       THEN ConcatColumns(numeric_df, enc.encoded_df) ELSE numeric_df,
                       enc.encoding_info, over90 \o enc.skipped_columns)

\* Lines 229-240: the categorical pipeline, on the rows the numeric one kept.
PreprocessImputed(df, categorical_columns, over90, numeric_df) ==
    IF categorical_columns.is_none \/ categorical_columns.list = <<>>
    THEN PreprocessCombined(numeric_df, <<>>, over90)
    ELSE PreprocessEncoded(numeric_df, over90,
            encode_categoricals(LocRows(df, numeric_df.index), categorical_columns.list,
                                cardinality_threshold_default, max_total_features_default))

\* Line 223: skipped when no column is left.
DropEmptyRows(frame) ==
    IF frame.columns # <<>> THEN LocRows(frame, RowsWithValue(frame)) ELSE frame

\* Lines 215-227: the over-90%-missing record and drop, the all-missing rows,
\* the median imputation.
PreprocessSelected(df, categorical_columns, selected) ==
    LET RecordedDrop(c) == RecordedOver90Missing(c.cells, NRows(df))
        Kept(c) == KeptByThresh(c.cells, NRows(df))
    IN PreprocessImputed(df, categorical_columns,
            DroppedRecords(selected.columns, RecordedDrop, "Over 90% missing values"),
            ImputeMedian(DropEmptyRows([selected EXCEPT !.columns = FilterColumns(@, Kept)])))

preprocess(df, columns, categorical_columns) ==
    IF ~columns.is_none /\ MissingFromFrame(df, columns.list) # {}
    THEN [kind |-> "KeyError", missing |-> MissingFromFrame(df, columns.list)]
    ELSE PreprocessSelected(df, categorical_columns, SelectNumeric(df, columns))

-----------------------------------------------------------------------------
(* Specification SpecPreprocess: one call of preprocess.                    *)

BigRows == 15         \* a dataset large enough for the over-90%-missing rule to bite

\* A numeric column of n rows: the first `nulls` cells are missing, the others
\* cycle through k even numbers.
NumericColumns(n, name) ==
    { [name |-> name, dtype |-> "number",
       cells |-> [r \in 1 .. n |-> IF r <= nulls THEN NaN ELSE Cell(2 * ((r % k) + 1))]] :
        <<k, nulls>> \in (1 .. 2) \X ({0, 1, n - 1, n} \cap (0 .. n)) }

\* Zero, one or two numeric columns x1, x2.
NumericParts(n) ==
    { <<>> } \cup { <<c>> : c \in NumericColumns(n, "x1") }
    \cup (NumericColumns(n, "x1") \X NumericColumns(n, "x2"))

\* No other column, or one text column c1.
TextParts(n) ==
    { <<>> } \cup { <<c>> : c \in ObjectColumns(n, {<<"b", "a", "c">>}, "c1") }

ColumnLists == { None, Some(<<>>), Some(<<"x1">>), Some(<<"x1", "x2">>),
                 Some(<<"x2", "c1">>), Some(<<"x1", "x2", "ghost">>) }
CategoricalLists == { None, Some(<<"c1">>), Some(<<"ghost", "c1">>) }

\* The allowlist names columns of the dataset or the column "ghost", which no
\* dataset has; df[columns] decides what a missing name does.
NamesKnown(df, names) == \A c \in Range(names) : HasColumn(df, c) \/ c = "ghost"

InitPreprocess ==
    /\ \E n \in (1 .. MaxRows) \cup {BigRows} :
       \E nums \in NumericParts(n), texts \in TextParts(n),
          columns \in ColumnLists, categorical_columns \in CategoricalLists :
            LET df == [index |-> 1 .. n, columns |-> nums \o texts]
            IN /\ NamesKnown(df, columns.list)
               /\ NamesKnown(df, categorical_columns.list)
               /\ pre_call = [df |-> df, columns |-> columns,
                              categorical_columns |-> categorical_columns]
    /\ pre_result = Pending
    /\ EncIdle /\ KIdle /\ ClIdle /\ PfIdle /\ RunIdle
    /\ ClsIdle /\ EpsIdle /\ MemIdle /\ WebIdle
    /\ VizIdle /\ TkIdle /\ SvIdle

\* The call preprocess(df, columns, categorical_columns) runs to its return
\* or to the exception it raises.
PreprocessCall ==
    /\ pre_result = Pending
    /\ pre_result' = preprocess(pre_call.df, pre_call.columns, pre_call.categorical_columns)
    /\ UNCHANGED <<pre_call, encVars, kVars, clVars, pfVars, runVars,
                   clsVars, epsVars, memVars, webVars,
                   vizVars, tkVars, svVars>>

NextPreprocess == PreprocessCall

SpecPreprocess == InitPreprocess /\ [][NextPreprocess]_vars

-----------------------------------------------------------------------------
(* Claims about preprocess, checked under SpecPreprocess.                   *)

\* The columns that remain when the four steps are carried out as documented:
\* the allowlist intersected with the numeric columns, every numeric column
\* with fewer than 10% values dropped, the categorical encoding concatenated,
\* and every zero-variance column dropped.
RemainingColumns(call) ==
    LET df == call.df
        Allowed(c) == IsNumber(c) /\ (call.columns.is_none \/ c.name \in Range(call.columns.list))
        NotSparse(c) == ~RecordedOver90Missing(c.cells, NRows(df))
        kept == [index |-> df.index,
                 columns |-> FilterColumns(FilterColumns(df.columns, Allowed), NotSparse)]
        rows_df == IF kept.columns # <<>> THEN LocRows(kept, RowsWithValue(kept)) ELSE kept
        numeric_df == ImputeMedian(rows_df)
        enc == encode_categoricals(LocRows(df, numeric_df.index), call.categorical_columns.list,
                                   cardinality_threshold_default, max_total_features_default)
        combined == IF enc.encoded_df.index # {}
                    THEN numeric_df.columns \o enc.encoded_df.columns ELSE numeric_df.columns
        Varies(c) == ~ZeroVariance(c.cells)
    IN FilterColumns(combined, Varies)

\* C1 (as claimed): preprocess raises the "at least 2" error exactly when
\* fewer than 2 columns remain after numeric selection, the over-90%-missing
\* drop, categorical encoding and the zero-variance drop, and returns a
\* PreprocessResult with at least 2 feature names for every other input.
C1_FeatureFloor ==
    pre_result # Pending =>
        IF Len(RemainingColumns(pre_call)) < 2
        THEN /\ pre_result.kind = "ValueError"
             /\ pre_result.message = "Need at least 2 features for analysis"
        ELSE /\ pre_result.kind = "PreprocessResult"
             /\ Len(pre_result.feature_names) >= 2

\* C23 (as claimed): after preprocess returns, a selected numeric column is
\* recorded in dropped_columns if and only if it is absent from
\* feature_names; a numeric column with fewer than 10% non-null values is
\* recorded with reason "Over 90% missing values" and is removed, whatever
\* the row count.
C23_DroppedIffAbsent ==
    (pre_result # Pending /\ pre_result.kind = "PreprocessResult") =>
        LET selected == SelectNumeric(pre_call.df, pre_call.columns).columns
            dropped == pre_result.dropped_columns
            Recorded(c) == \E i \in DOMAIN dropped : dropped[i].column = c
            Absent(c) == c \notin Range(pre_result.feature_names)
        IN \A j \in DOMAIN selected :
              /\ Recorded(selected[j].name) <=> Absent(selected[j].name)
              /\ RecordedOver90Missing(selected[j].cells, NRows(pre_call.df)) =>
                    /\ Absent(selected[j].name)
                    /\ \E i \in DOMAIN dropped :
                          /\ dropped[i].column = selected[j].name
                          /\ dropped[i].reason = "Over 90% missing values"

-----------------------------------------------------------------------------
(* find_optimal_k (analysis_engine.py, 292-317).                            *)
(*                                                                          *)
(* k-means and the silhouette score are library code. What the search sees  *)
(* of them is, for each k: whether the fit raises (fewer rows than          *)
(* clusters), how many distinct labels it returns, and the score of that    *)
(* labelling. A call is described by the frame's row count n, the number of *)
(* distinct rows and the score of the k-cluster partition for every k up to *)
(* the number of distinct rows; a k above that collapses to the partition   *)
(* with one cluster per distinct row. Scores are in tenths; a silhouette    *)
(* score is a mean of values in [-1, 1] that cannot all be -1, so every     *)
(* score is above -10.                                                      *)

\* Lines 297-298: max_k = max(min(10, int(math.sqrt(n))), 3)
MaxK(n) == Max(Min(10, ISqrt(n)), 3)

\* KMeans(n_clusters=k, n_init=10, random_state=42).fit_predict(values)
KMeansOutcome(call, k) ==
    IF call.n < k
    THEN [kind |-> "ValueError", message |-> "n_samples should be >= n_clusters"]
    ELSE [kind |-> "labels", n_distinct |-> Min(k, call.distinct)]

\* silhouette_score(values, labels): defined for 2 .. n - 1 distinct labels.
SilhouetteOutcome(call, n_distinct) ==
    IF n_distinct < 2 \/ n_distinct > call.n - 1
    THEN [kind |-> "ValueError", message |-> "Number of labels is invalid"]
    ELSE [kind |-> "score", score |-> call.score[n_distinct]]

\* Line 310 with the claimed tie-break inverted: a later k replaces an equal score.
IsBetterOrEqual(score, best_score) == score >= best_score

\* Line 310: if score > best_score
IsBetter(score, best_score) == score > best_score

\* Line 307 as the specification words it: skip a k that collapsed below k.
SkipsBelowK(n_distinct, k) == n_distinct < k

\* Line 307: if len(set(labels)) < 2: continue
SkipsCandidate(n_distinct, k) == n_distinct < 2

\* One iteration of the loop over range(2, max_k + 1) (lines 303-314).
TryK(call, k, acc) ==
    LET fit == KMeansOutcome(call, k)
        sil == SilhouetteOutcome(call, fit.n_distinct)
        tried == [acc EXCEPT !.tried = Append(@, k)]
    IN IF fit.kind # "labels" THEN tried
       ELSE IF SkipsCandidate(fit.n_distinct, k) THEN tried
       ELSE IF sil.kind # "score" THEN [tried EXCEPT !.asked = @ \cup {k}]
       ELSE IF IsBetter(sil.score, acc.best_score)
       THEN [tried EXCEPT !.asked = @ \cup {k}, !.scored = @ \cup {k},
                          !.best_score = sil.score, !.best_k = k]
       ELSE [tried EXCEPT !.asked = @ \cup {k}, !.scored = @ \cup {k}]

RECURSIVE SweepK(_, _, _, _)
SweepK(call, k, max_k, acc) ==
    IF k > max_k THEN acc ELSE SweepK(call, k + 1, max_k, TryK(call, k, acc))

\* best_k, with what the sweep did: the k it tried, in order, the k for which
\* it called silhouette_score (asked) and those that got a score (scored).
find_optimal_k(call) ==
    SweepK(call, 2, MaxK(call.n),
           [kind |-> "best_k", best_k |-> 2, best_score |-> -10,
            tried |-> <<>>, asked |-> {}, scored |-> {}])

-----------------------------------------------------------------------------
(* Specification SpecFindK: one call of find_optimal_k.                     *)

MaxPoints == 26       \* frames of 1 .. MaxPoints rows, and one of HugePoints rows
HugePoints == 150
MaxDistinct == 5      \* 1 .. MaxDistinct distinct rows, or all rows distinct
ScoreLevels == {-9, 3, 10}

InitFindK ==
    /\ \E n \in (1 .. MaxPoints) \cup {HugePoints} :
       \E distinct \in (1 .. Min(n, MaxDistinct)) \cup {n} :
       \E score \in [2 .. Min(MaxK(n), distinct) -> ScoreLevels] :
            k_call = [n |-> n, distinct |-> distinct, score |-> score]
    /\ k_result = Pending
    /\ EncIdle /\ PreIdle /\ ClIdle /\ PfIdle /\ RunIdle
    /\ ClsIdle /\ EpsIdle /\ MemIdle /\ WebIdle
    /\ VizIdle /\ TkIdle /\ SvIdle

\* The call find_optimal_k(scaled_df) runs to its return.
FindOptimalKCall ==
    /\ k_result = Pending
    /\ k_result' = find_optimal_k(k_call)
    /\ UNCHANGED <<k_call, encVars, preVars, clVars, pfVars, runVars,
                   clsVars, epsVars, memVars, webVars,
                   vizVars, tkVars, svVars>>

NextFindK == FindOptimalKCall

SpecFindK == InitFindK /\ [][NextFindK]_vars

-----------------------------------------------------------------------------
(* Claims about find_optimal_k, checked under SpecFindK.                    *)

FindKReturned == k_result.kind = "best_k"

\* The score the sweep obtained for a scored candidate k.
ScoreOf(call, k) == SilhouetteOutcome(call, KMeansOutcome(call, k).n_distinct).score

\* C7: the sweep tries k = 2 .. max(3, min(10, floor(sqrt(n)))) in ascending
\* order and returns the lowest k among those with the highest score, or 2
\* when no k got a score; the result lies in 2 .. max(3, min(10, floor(sqrt(n)))).
C7_BestK ==
    FindKReturned =>
        LET max_k == IF k_call.n >= 100 THEN 10
                     ELSE IF k_call.n < 16 THEN 3
                     ELSE CHOOSE r \in 4 .. 9 : r * r <= k_call.n /\ (r + 1) * (r + 1) > k_call.n
            best == k_result.best_k
        IN /\ k_result.tried = [i \in 1 .. (max_k - 1) |-> i + 1]
           /\ best \in 2 .. max_k
           /\ k_result.scored = {} => best = 2
           /\ k_result.scored # {} =>
                /\ best \in k_result.scored
                /\ \A k \in k_result.scored : ScoreOf(k_call, k) <= ScoreOf(k_call, best)
                /\ \A k \in k_result.scored :
                        ScoreOf(k_call, k) = ScoreOf(k_call, best) => best <= k

\* C7 witness: two candidates tie for the highest score, a lower-scored
\* candidate comes before them, and the lower of the two is returned.
C7_Witness ==
    /\ FindKReturned
    /\ \E j, k \in k_result.scored :
        /\ j < k_result.best_k /\ k > k_result.best_k
        /\ ScoreOf(k_call, j) < ScoreOf(k_call, k_result.best_k)
        /\ ScoreOf(k_call, k) = ScoreOf(k_call, k_result.best_k)

\* Whether the k-means run for candidate k returned fewer than k clusters.
Collapsed(call, k) ==
    KMeansOutcome(call, k).kind = "labels" /\ KMeansOutcome(call, k).n_distinct < k

\* C8 (as claimed): a candidate whose run collapses to fewer than k clusters
\* is not scored and is never returned.
C8_CollapsedSkipped ==
    FindKReturned =>
        \A k \in Range(k_result.tried) :
            Collapsed(k_call, k) => k \notin k_result.asked /\ k_result.best_k # k

\* C8 (amended): a candidate whose run yields fewer than 2 distinct clusters
\* is skipped without being scored, and is returned only as the default 2
\* when no candidate got a score; a candidate that collapses to d clusters,
\* 2 <= d < k, with d below the row count, is scored like any other.
C8_SingleClusterSkipped ==
    FindKReturned =>
        \A k \in Range(k_result.tried) :
            LET fit == KMeansOutcome(k_call, k)
            IN fit.kind = "labels" =>
                /\ fit.n_distinct < 2 =>
                     /\ k \notin k_result.asked
                     /\ k_result.best_k = k => (k = 2 /\ k_result.scored = {})
                /\ (Collapsed(k_call, k) /\ fit.n_distinct >= 2) =>
                     /\ k \in k_result.asked
                     /\ fit.n_distinct < k_call.n => k \in k_result.scored

\* C8 witness: a candidate that collapsed to 2 or more clusters was scored.
C8_Witness ==
    /\ FindKReturned
    /\ \E k \in k_result.scored : Collapsed(k_call, k)

-----------------------------------------------------------------------------
(* cluster and _auto_eps (analysis_engine.py, 320-384).                     *)
(*                                                                          *)
(* The three estimators are library code. A call is described by the row    *)
(* count n, the number of distinct rows, the silhouette score of k-means'   *)
(* partition for each k (as for find_optimal_k), the label vector the       *)
(* chosen estimator returns when it fits, the score of that labelling and,  *)
(* for dbscan, the median k-nearest-neighbour distance (in hundredths).     *)

NoScore == {}                  \* sil_score = None

\* Lines 371-372: set(labels) with -1 discarded.
NonNoiseLabels(labels) == Range(labels) \ {-1}
\* Line 376: mask = labels != -1
NonNoiseRows(labels) == {r \in DOMAIN labels : labels[r] # -1}

\* sklearn.metrics.silhouette_score on n_samples points with n_labels labels:
\* ValueError unless 2 <= n_labels <= n_samples - 1.
SilhouetteDefined(n_labels, n_samples) == 2 <= n_labels /\ n_labels <= n_samples - 1

\* Line 377 with the comparison weakened to >=.
EnoughPointsOrEqual(n_points, n_clusters) == n_points >= n_clusters

\* Line 377: if mask.sum() > len(unique_labels)
EnoughPoints(n_points, n_clusters) == n_points > n_clusters

\* Lines 370-384: the quality score of the labelling, then the return value.
FinishCluster(labels, n_clusters, params, score) ==
    LET unique_labels == NonNoiseLabels(labels)
        n_points == Cardinality(NonNoiseRows(labels))
        wanted == /\ Cardinality(unique_labels) >= 2
                  /\ EnoughPoints(n_points, Cardinality(unique_labels))
    IN IF wanted /\ ~SilhouetteDefined(Cardinality(unique_labels), n_points)
       THEN [kind |-> "ValueError", message |-> "Number of labels is invalid"]
       ELSE [kind |-> "clustered", labels |-> labels, n_clusters |-> n_clusters,
             sil_score |-> IF wanted THEN Cell(score) ELSE NoScore, params |-> params]

\* _auto_eps without the floor of line 330.
auto_eps_unfloored(median_knn, n, min_samples) ==
    LET k == Min(min_samples, n - 1)
    IN IF k < 1
       THEN [kind |-> "ValueError", message |-> "n_neighbors must be >= 1"]
       ELSE [kind |-> "eps", eps |-> median_knn]

\* _auto_eps (lines 320-332), in hundredths: NearestNeighbors rejects
\* n_neighbors = 0, which is what a single row asks for.
auto_eps(median_knn, n, min_samples) ==
    LET k == Min(min_samples, n - 1)
    IN IF k < 1
       THEN [kind |-> "ValueError", message |-> "n_neighbors must be >= 1"]
       ELSE [kind |-> "eps", eps |-> Max(median_knn, 1)]

\* Line 347 / 362: n_clusters, found by the sweep when the caller gave None.
ResolveK(call) ==
    IF call.n_clusters = {}
    THEN find_optimal_k([n |-> call.n, distinct |-> call.distinct, score |-> call.score]).best_k
    ELSE ValueOf(call.n_clusters)

\* Line 353: min_samples = max(5, len(values) // 100)
MinSamples(n) == Max(5, n \div 100)

\* What fitting the chosen estimator raises, if anything: KMeans and
\* AgglomerativeClustering need at least n_clusters rows (the latter at
\* least 2), and dbscan's _auto_eps needs a neighbour to measure.
EstimatorError(call) ==
    IF call.algorithm = "kmeans" /\ call.n < ResolveK(call)
    THEN [kind |-> "ValueError", message |-> "n_samples should be >= n_clusters"]
    ELSE IF call.algorithm = "dbscan"
              /\ auto_eps(call.median_knn, call.n, MinSamples(call.n)).kind # "eps"
    THEN auto_eps(call.median_knn, call.n, MinSamples(call.n))
    ELSE IF call.algorithm = "hierarchical" /\ (call.n < 2 \/ call.n < ResolveK(call))
    THEN [kind |-> "ValueError", message |-> "Cannot extract more clusters than samples"]
    ELSE [kind |-> "fitted"]

\* The branches of lines 345-368 with the final else taken by no name.
AlgorithmsUnchecked == {"kmeans", "dbscan", "hierarchical", "spectral", "KMeans", ""}

\* The names lines 345, 352 and 360 compare the algorithm with.
Algorithms == {"kmeans", "dbscan", "hierarchical"}

\* The estimators on which the call runs fit or fit_predict: KMeans in
\* find_optimal_k (lines 303-305) and in the kmeans branch, NearestNeighbors
\* in _auto_eps and then DBSCAN, AgglomerativeClustering.
Fits(call) ==
    IF call.algorithm \notin Algorithms THEN {}
    ELSE IF call.algorithm = "kmeans" THEN {"KMeans"}
    ELSE IF call.algorithm = "dbscan"
    THEN {"NearestNeighbors"} \cup (IF EstimatorError(call).kind = "fitted"
                                    THEN {"DBSCAN"} ELSE {})
    ELSE (IF call.n_clusters = {} THEN {"KMeans"} ELSE {}) \cup {"AgglomerativeClustering"}

cluster(call) ==
    LET failure == EstimatorError(call)
        labels == call.labels
    IN IF call.algorithm \notin Algorithms
       THEN [kind |-> "ValueError", message |-> "Unknown algorithm: " \o call.algorithm]
       ELSE IF failure.kind # "fitted" THEN failure
       ELSE IF call.algorithm = "kmeans"
       THEN FinishCluster(labels, ResolveK(call),
                          [n_clusters |-> ResolveK(call), n_init |-> 10], call.fit_score)
       ELSE IF call.algorithm = "dbscan"
       THEN FinishCluster(labels,
                          Cardinality(Range(labels)) - (IF -1 \in Range(labels) THEN 1 ELSE 0),
                          [eps |-> auto_eps(call.median_knn, call.n, MinSamples(call.n)).eps,
                           min_samples |-> MinSamples(call.n)],
                          call.fit_score)
       ELSE FinishCluster(labels, ResolveK(call),
                          [n_clusters |-> ResolveK(call), linkage |-> "ward"], call.fit_score)

-----------------------------------------------------------------------------
(* Specification SpecCluster: one call of cluster.                          *)

MaxLabelRows == 4     \* cluster sees 1 .. MaxLabelRows rows
MaxClusters == 3      \* n_clusters is None or 2 .. MaxClusters

\* The label vectors an estimator can return for n rows: k-means one label
\* per distinct row when there are fewer of those than clusters, otherwise
\* (and for ward linkage) every label 0 .. k - 1; dbscan -1 for noise and
\* cluster labels from 0 upwards.
FitLabels(algorithm, n, distinct, k) ==
    IF algorithm = "dbscan"
    THEN {l \in [1 .. n -> -1 .. 1] : 1 \in Range(l) => 0 \in Range(l)}
    ELSE LET used == IF algorithm = "kmeans" THEN Min(k, distinct) ELSE k
         IN {l \in [1 .. n -> 0 .. (k - 1)] : Cardinality(Range(l)) = used}

InitCluster ==
    /\ \E n \in 1 .. MaxLabelRows, distinct \in 1 .. MaxLabelRows,
          algorithm \in {"kmeans", "dbscan", "hierarchical", "spectral", "KMeans", ""},
          n_clusters \in {{}} \cup {{k} : k \in 2 .. MaxClusters},
          fit_score \in ScoreLevels, median_knn \in {0, 50} :
       \E score \in [2 .. Min(MaxK(n), distinct) -> {fit_score}] :
          LET args == [n |-> n, distinct |-> distinct, score |-> score,
                       algorithm |-> algorithm, n_clusters |-> n_clusters,
                       fit_score |-> fit_score, median_knn |-> median_knn]
              fits == algorithm \in {"kmeans", "dbscan", "hierarchical"}
                        /\ EstimatorError(args).kind = "fitted"
          IN /\ distinct <= n
             /\ algorithm # "dbscan" => median_knn = 0
             /\ \E labels \in (IF fits THEN FitLabels(algorithm, n, distinct, ResolveK(args))
                               ELSE {<<>>}) :
                  cl_call = [n |-> n, distinct |-> distinct, score |-> score,
                             algorithm |-> algorithm, n_clusters |-> n_clusters,
                             labels |-> labels, fit_score |-> fit_score,
                             median_knn |-> median_knn]
    /\ cl_result = Pending
    /\ cl_fitted = {}
    /\ EncIdle /\ PreIdle /\ KIdle /\ PfIdle /\ RunIdle
    /\ ClsIdle /\ EpsIdle /\ MemIdle /\ WebIdle
    /\ VizIdle /\ TkIdle /\ SvIdle

\* The call cluster(scaled_df, algorithm, n_clusters) runs to its return or
\* to the exception it raises.
ClusterCall ==
    /\ cl_result = Pending
    /\ cl_result' = cluster(cl_call)
    /\ cl_fitted' = Fits(cl_call)
    /\ UNCHANGED <<cl_call, encVars, preVars, kVars, pfVars, runVars,
                   clsVars, epsVars, memVars, webVars,
                   vizVars, tkVars, svVars>>

NextCluster == ClusterCall

SpecCluster == InitCluster /\ [][NextCluster]_vars

-----------------------------------------------------------------------------
(* Claims about cluster, checked under SpecCluster.                         *)

\* Whether the estimator fitted, so that there is a label vector to score.
Fitted(call) ==
    /\ call.algorithm \in {"kmeans", "dbscan", "hierarchical"}
    /\ EstimatorError(call).kind = "fitted"

\* C5: whenever the estimator fitted, cluster returns, and it returns a score
\* exactly when the labels hold at least 2 distinct non-noise clusters and
\* more non-noise points than non-noise clusters; otherwise the score is None.
C5_SilhouetteGate ==
    (cl_result # Pending /\ Fitted(cl_call)) =>
        LET clusters == {c \in Range(cl_call.labels) : c # -1}
            points == {r \in DOMAIN cl_call.labels : cl_call.labels[r] # -1}
        IN /\ cl_result.kind = "clustered"
           /\ cl_result.sil_score # NoScore <=>
                (Cardinality(clusters) >= 2 /\ Cardinality(points) > Cardinality(clusters))

\* C5 witness: as many non-noise clusters as non-noise points, at least 2 of
\* them, and cluster returned without a score.
C5_Witness ==
    /\ cl_result.kind = "clustered"
    /\ cl_result.sil_score = NoScore
    /\ Cardinality(NonNoiseLabels(cl_result.labels)) >= 2
    /\ Cardinality(NonNoiseLabels(cl_result.labels)) = Cardinality(NonNoiseRows(cl_result.labels))

\* C18: cluster called with an algorithm name other than "kmeans", "dbscan"
\* or "hierarchical" raises a ValueError whose message ends with the given
\* name; it has fitted no estimator and returns no labels.
C18_UnknownAlgorithmRejected ==
    (cl_result # Pending /\ cl_call.algorithm \notin {"kmeans", "dbscan", "hierarchical"}) =>
        /\ cl_result = [kind |-> "ValueError",
                        message |-> "Unknown algorithm: " \o cl_call.algorithm]
        /\ cl_fitted = {}

\* C18 witness: cluster has raised for the name "spectral" on a frame that
\* kmeans would have clustered.
C18_Witness ==
    /\ cl_call.algorithm = "spectral" /\ cl_call.n >= 3 /\ cl_call.distinct >= 2
    /\ cl_result.kind = "ValueError"

-----------------------------------------------------------------------------
(* Specification SpecAutoEps: one call of _auto_eps on a one-feature array,  *)
(* coordinates and distances in hundredths.                                  *)

MaxEpsPoints == 4     \* scaled_data has 1 .. MaxEpsPoints rows
MaxMinSamples == 3    \* min_samples is 1 .. MaxMinSamples

\* Even coordinates, so that the mean of two middle distances is whole.
EpsCoordinates == {0, 2, 6}

Distance(a, b) == IF a >= b THEN a - b ELSE b - a

\* Lines 326-327: distances[:, -1], the distance from each point to its k-th
\* nearest fitted point; the point itself is among the fitted points.
KthDistances(scaled_data, k) ==
    [p \in DOMAIN scaled_data |->
        LET d == [q \in DOMAIN scaled_data |-> Cell(Distance(scaled_data[p], scaled_data[q]))]
        IN Cell(SortedValues(d, DOMAIN d)[k])]

\* Lines 323-332 on the array itself.
AutoEpsOf(scaled_data, min_samples) ==
    LET n == Len(scaled_data)
        k == Min(min_samples, n - 1)
    IN auto_eps(IF k < 1 THEN 0 ELSE ValueOf(Median(KthDistances(scaled_data, k))),
                n, min_samples)

InitAutoEps ==
    /\ \E n \in 1 .. MaxEpsPoints, min_samples \in 1 .. MaxMinSamples :
         \E scaled_data \in [1 .. n -> EpsCoordinates] :
            eps_call = [scaled_data |-> scaled_data, min_samples |-> min_samples]
    /\ eps_result = Pending
    /\ EncIdle /\ PreIdle /\ KIdle /\ ClIdle /\ PfIdle /\ RunIdle
    /\ ClsIdle /\ MemIdle /\ WebIdle
    /\ VizIdle /\ TkIdle /\ SvIdle

\* The call _auto_eps(scaled_data, min_samples) runs to its return or to the
\* exception NearestNeighbors raises.
AutoEpsCall ==
    /\ eps_result = Pending
    /\ eps_result' = AutoEpsOf(eps_call.scaled_data, eps_call.min_samples)
    /\ UNCHANGED <<eps_call, encVars, preVars, kVars, clVars, pfVars, runVars,
                   clsVars, memVars, webVars,
                   vizVars, tkVars, svVars>>

NextAutoEps == AutoEpsCall

SpecAutoEps == InitAutoEps /\ [][NextAutoEps]_vars

-----------------------------------------------------------------------------
(* Claims about _auto_eps, checked under SpecAutoEps.                       *)

\* C17: for at least two points and min_samples >= 1, _auto_eps returns a
\* value of at least 0.01 (1 hundredth), also when every point is the same
\* and the median neighbour distance is 0: it never returns 0.
C17_EpsFloor ==
    (eps_result # Pending /\ Len(eps_call.scaled_data) >= 2 /\ eps_call.min_samples >= 1) =>
        /\ eps_result.kind = "eps"
        /\ eps_result.eps >= 1

\* C17 witness: every point is the same, so every neighbour distance is 0,
\* and _auto_eps has returned.
C17_Witness ==
    /\ eps_result # Pending /\ eps_result.kind = "eps"
    /\ Len(eps_call.scaled_data) >= 2
    /\ \A p, q \in DOMAIN eps_call.scaled_data :
          eps_call.scaled_data[p] = eps_call.scaled_data[q]

-----------------------------------------------------------------------------
(* profile_clusters (analysis_engine.py, 387-445): sizes and centroids.     *)

\* Python's round(): the nearest integer to num / den (den > 0), a tie going
\* to the even neighbour.
RoundHalfEven(num, den) ==
    LET q == num \div den
        r == num % den
    IN IF 2 * r < den THEN q
       ELSE IF 2 * r > den THEN q + 1
       ELSE IF q % 2 = 0 THEN q ELSE q + 1

FourDecimals == 10000
\* round(float(series.mean()), 4) over the given rows, in ten-thousandths;
\* NaN when no row holds a value.
RoundedMean(cells, rows) ==
    LET present == {r \in rows : cells[r] # NaN}
    IN IF present = {} THEN NaN
       ELSE Cell(RoundHalfEven(SumOver([r \in present |-> ValueOf(cells[r])], present)
                                  * FourDecimals,
                               Cardinality(present)))

\* Lines 396-399: the label_mapping of every label-encoded column.
LabelMaps(encoding_info) ==
    LET labelled == {i \in DOMAIN encoding_info :
                        /\ encoding_info[i].encoding_type = "label"
                        /\ "label_mapping" \in DOMAIN encoding_info[i]}
        last(col) == CHOOSE i \in labelled :
                        /\ encoding_info[i].original_column = col
                        /\ \A j \in labelled :
                            encoding_info[j].original_column = col => j <= i
    IN [col \in {encoding_info[i].original_column : i \in labelled} |->
            encoding_info[last(col)].label_mapping]

\* Line 417 without the clamp.
UnclampedIndex(rounded, length) == rounded

\* Line 417: idx = max(0, min(round(raw_mean), len(mapping) - 1))
ClampIndex(rounded, length) == Max(0, Min(rounded, length - 1))

\* mapping[idx] on a Python list: a negative idx counts from the end, and an
\* idx outside -len .. len - 1 raises IndexError.
ListGet(mapping, idx) ==
    IF 0 <= idx /\ idx < Len(mapping) THEN Cell(mapping[idx + 1])
    ELSE IF -Len(mapping) <= idx /\ idx < 0 THEN Cell(mapping[Len(mapping) + idx + 1])
    ELSE NaN

\* Lines 414-420: one feature's centroid value, [raises, value]; a number is
\* given in ten-thousandths.
CentroidValue(cells, rows, col, label_maps) ==
    LET raw_mean == RoundedMean(cells, rows)
        mapping == label_maps[col]
        idx == ClampIndex(RoundHalfEven(ValueOf(raw_mean), FourDecimals), Len(mapping))
    IN IF col \notin DOMAIN label_maps THEN [raises |-> "", value |-> raw_mean]
       ELSE IF raw_mean = NaN THEN [raises |-> "ValueError", value |-> NaN]
       ELSE IF ListGet(mapping, idx) = NaN THEN [raises |-> "IndexError", value |-> NaN]
       ELSE [raises |-> "", value |-> ListGet(mapping, idx)]

\* The index label of the row at position p: mask is a boolean array, so
\* numeric_df[mask] selects rows by position.
RowAt(df, p) == SortedSeq(df.index, [r \in df.index |-> r])[p]

\* Line 402 with the noise label left out.
ClusterIdsWithoutNoise(labels) == Range(labels) \ {-1}

\* Line 402: unique_labels = sorted(set(labels)), here as a set.
ClusterIds(labels) == Range(labels)

\* Lines 405-443 for one cluster_id. The percentage is in tenths.
ClusterProfile(numeric_df, labels, feature_names, label_maps, cluster_id) ==
    LET mask == {RowAt(numeric_df, p) : p \in {r \in DOMAIN labels : labels[r] = cluster_id}}
        size == Cardinality(mask)
        total == Len(labels)
    IN [cluster_id |-> cluster_id,
        size |-> size,
        percentage |-> RoundHalfEven(size * 100 * 10, total),
        centroid |-> [col \in Range(feature_names) |->
                        CentroidValue(Column(numeric_df, col).cells, mask, col, label_maps)]]

profile_clusters(numeric_df, labels, feature_names, encoding_info) ==
    LET label_maps == LabelMaps(encoding_info)
        ids == SortedSeq(ClusterIds(labels), [c \in ClusterIds(labels) |-> c])
        profiles == [i \in DOMAIN ids |->
                        ClusterProfile(numeric_df, labels, feature_names, label_maps, ids[i])]
        raised == {profiles[i].centroid[col].raises :
                        i \in DOMAIN profiles, col \in Range(feature_names)} \ {""}
    IN IF raised # {}
       THEN [kind |-> CHOOSE e \in raised : TRUE]
       ELSE [kind |-> "profiles",
             profiles |-> [i \in DOMAIN profiles |->
                [profiles[i] EXCEPT !.centroid =
                    [col \in Range(feature_names) |-> profiles[i].centroid[col].value]]]]

-----------------------------------------------------------------------------
(* Specification SpecProfile: one call of profile_clusters on one feature.  *)

MaxProfileRows == 3   \* profile_clusters sees 1 .. MaxProfileRows rows
FeatureValues == {-3, 0, 1, 2, 10}

\* What encoding_info says of the feature: nothing, a label encoding with a
\* mapping of 1 to 3 categories, or a one-hot encoding.
FeatureEncodings ==
    { <<>> }
    \cup { << [original_column |-> "feat", encoding_type |-> "label", new_columns |-> <<"feat">>,
               cardinality |-> Len(m), label_mapping |-> m] >> :
            m \in { <<"A">>, <<"A", "B">>, <<"A", "B", "C">> } }
    \cup { << [original_column |-> "feat", encoding_type |-> "one-hot",
               new_columns |-> <<"feat">>, cardinality |-> 2] >> }

InitProfile ==
    /\ \E n \in 1 .. MaxProfileRows :
       \E labels \in [1 .. n -> -1 .. 1], values \in [1 .. n -> FeatureValues],
          encoding_info \in FeatureEncodings :
            pf_call = [numeric_df |-> [index |-> 1 .. n,
                                       columns |-> << [name |-> "feat", dtype |-> "number",
                                                      cells |-> [r \in 1 .. n |-> Cell(values[r])]] >>],
                       labels |-> labels, feature_names |-> <<"feat">>,
                       encoding_info |-> encoding_info]
    /\ pf_result = Pending
    /\ EncIdle /\ PreIdle /\ KIdle /\ ClIdle /\ RunIdle
    /\ ClsIdle /\ EpsIdle /\ MemIdle /\ WebIdle
    /\ VizIdle /\ TkIdle /\ SvIdle

\* The call profile_clusters(numeric_df, scaled_df, labels, feature_names,
\* encoding_info) runs to its return or to the exception it raises.
ProfileCall ==
    /\ pf_result = Pending
    /\ pf_result' = profile_clusters(pf_call.numeric_df, pf_call.labels,
                                     pf_call.feature_names, pf_call.encoding_info)
    /\ UNCHANGED <<pf_call, encVars, preVars, kVars, clVars, runVars,
                   clsVars, epsVars, memVars, webVars,
                   vizVars, tkVars, svVars>>

NextProfile == ProfileCall

SpecProfile == InitProfile /\ [][NextProfile]_vars

-----------------------------------------------------------------------------
(* Claims about profile_clusters, checked under SpecProfile.                *)

\* C2: profile_clusters returns exactly one profile for each distinct label,
\* the noise label -1 included; every profile's size is above 0 and the sizes
\* add up to the row count.
C2_ProfilesPartition ==
    pf_result # Pending =>
        /\ pf_result.kind = "profiles"
        /\ \A c \in Range(pf_call.labels) :
              Cardinality({i \in DOMAIN pf_result.profiles :
                              pf_result.profiles[i].cluster_id = c}) = 1
        /\ Len(pf_result.profiles) = Cardinality(Range(pf_call.labels))
        /\ \A i \in DOMAIN pf_result.profiles : pf_result.profiles[i].size > 0
        /\ SumSeq([i \in DOMAIN pf_result.profiles |-> pf_result.profiles[i].size])
              = Len(pf_call.labels)

\* C2 witness: noise and two clusters are profiled.
C2_Witness ==
    /\ pf_result.kind = "profiles"
    /\ Range(pf_call.labels) = {-1, 0, 1}
    /\ Len(pf_result.profiles) = 3

\* The mean of the feature over a cluster's rows, as the pair <<sum, count>>.
ClusterSum(call, c) ==
    LET rows == {r \in DOMAIN call.labels : call.labels[r] = c}
    IN <<SumOver([r \in rows |-> ValueOf(call.numeric_df.columns[1].cells[r])], rows),
         Cardinality(rows)>>

IsLabelEncoded(call) ==
    call.encoding_info # <<>> /\ call.encoding_info[1].encoding_type = "label"

\* C9: for a label-encoded feature no call raises, and every centroid is the
\* label_mapping entry at the integer nearest to the cluster's mean (a tie
\* going to the even neighbour), moved to 0 when it is below 0 and to
\* len(label_mapping) - 1 when it is above.
C9_CentroidClamped ==
    (pf_result # Pending /\ IsLabelEncoded(pf_call)) =>
        /\ pf_result.kind = "profiles"
        /\ \A i \in DOMAIN pf_result.profiles :
            LET mapping == pf_call.encoding_info[1].label_mapping
                mean == ClusterSum(pf_call, pf_result.profiles[i].cluster_id)
                near == CHOOSE z \in -4 .. 11 :
                            /\ 2 * z * mean[2] - 2 * mean[1] <= mean[2]
                            /\ 2 * mean[1] - 2 * z * mean[2] <= mean[2]
                            /\ (2 * z * mean[2] - 2 * mean[1] \in {mean[2], -mean[2]}) => z % 2 = 0
                idx == IF near < 0 THEN 0
                       ELSE IF near > Len(mapping) - 1 THEN Len(mapping) - 1 ELSE near
            IN pf_result.profiles[i].centroid["feat"] = Cell(mapping[idx + 1])

\* C9 witness: a cluster whose mean is 10 with a mapping of 3 categories gets
\* the last category, and one whose mean is -3 gets the first.
C9_Witness ==
    /\ pf_result.kind = "profiles"
    /\ IsLabelEncoded(pf_call)
    /\ Len(pf_call.encoding_info[1].label_mapping) = 3
    /\ \E i, j \in DOMAIN pf_result.profiles :
        /\ ClusterSum(pf_call, pf_result.profiles[i].cluster_id) = <<10, 1>>
        /\ pf_result.profiles[i].centroid["feat"] = Cell("C")
        /\ ClusterSum(pf_call, pf_result.profiles[j].cluster_id)[1] < 0
        /\ pf_result.profiles[j].centroid["feat"] = Cell("A")

\* C16 (as claimed): in every result of cluster, n_clusters is the number of
\* distinct labels other than the noise label -1 (0 when every point is
\* noise), which is the number of profiles with cluster_id >= 0.  Checked
\* under SpecCluster.
C16_ClusterCountMatchesLabels ==
    cl_result.kind = "clustered" =>
        /\ cl_result.n_clusters = Cardinality({c \in Range(cl_result.labels) : c # -1})
        /\ cl_result.n_clusters = Cardinality({c \in ClusterIds(cl_result.labels) : c >= 0})

-----------------------------------------------------------------------------
(* profile_clusters (analysis_engine.py, 422-435): top_features. A mean is  *)
(* the pair <<sum, count>> of the cells that hold a value; a deviation is a *)
(* fraction [num, den] of scaled units, NaN when a mean is NaN.             *)

Abs(x) == IF x < 0 THEN -x ELSE x

\* Series.mean() over the given rows (missing cells are skipped).
MeanOf(cells, rows) ==
    LET present == {r \in rows : cells[r] # NaN}
    IN <<SumOver([r \in present |-> ValueOf(cells[r])], present), Cardinality(present)>>

\* Line 425 before .abs(): cluster_mean - overall_mean for one feature.
MeanDifference(cells, mask, index) ==
    LET cluster_mean == MeanOf(cells, mask)
        overall_mean == MeanOf(cells, index)
    IN IF cluster_mean[2] = 0 \/ overall_mean[2] = 0 THEN NaN
       ELSE Cell([num |-> cluster_mean[1] * overall_mean[2] - overall_mean[1] * cluster_mean[2],
                  den |-> cluster_mean[2] * overall_mean[2]])

\* Line 425: (cluster_mean - overall_mean).abs()
AbsDeviation(cells, mask, index) ==
    LET d == MeanDifference(cells, mask, index)
    IN IF d = NaN THEN NaN ELSE Cell([ValueOf(d) EXCEPT !.num = Abs(@)])

\* a > b for two deviations; NaN is greater than nothing.
GreaterDeviation(a, b) ==
    /\ a # NaN
    /\ b # NaN => ValueOf(a).num * ValueOf(b).den > ValueOf(b).num * ValueOf(a).den

\* Line 425: sort_values(ascending=False), NaN last, as the sequence of column
\* positions; tiebreak ranks the columns whose deviations are equal (the
\* sort's choice).
SortDescending(deviation, tiebreak) ==
    LET Before(g, f) ==
            \/ GreaterDeviation(deviation[g], deviation[f])
            \/ /\ ~GreaterDeviation(deviation[f], deviation[g])
               /\ tiebreak[g] < tiebreak[f]
        rank == [f \in DOMAIN deviation |->
                    Cardinality({g \in DOMAIN deviation : Before(g, f)})]
    IN SortedSeq(DOMAIN deviation, rank)

\* Line 433: round(float(deviation[feat]), 4), in ten-thousandths.
RoundedDeviation(d) ==
    IF d = NaN THEN NaN
    ELSE Cell(RoundHalfEven(ValueOf(d).num * FourDecimals, ValueOf(d).den * ScaleUnit))

\* Lines 422-435 for the rows of one cluster.
TopFeatures(numeric_df, scaled_df, mask, tiebreak) ==
    LET deviation == [j \in DOMAIN scaled_df.columns |->
                        AbsDeviation(scaled_df.columns[j].cells, mask, scaled_df.index)]
        order == SortDescending(deviation, tiebreak)
    IN [i \in 1 .. Min(5, Len(order)) |->
          LET feat == scaled_df.columns[order[i]].name
          IN [feature |-> feat,
              cluster_mean |-> RoundedMean(Column(numeric_df, feat).cells, mask),
              overall_mean |-> RoundedMean(Column(numeric_df, feat).cells, numeric_df.index),
              z_deviation |-> RoundedDeviation(deviation[order[i]])]]

\* profile_clusters with scaled_df: every profile with its top_features.
ProfilesWithTopFeatures(numeric_df, scaled_df, labels, feature_names, encoding_info, tiebreak) ==
    LET base == profile_clusters(numeric_df, labels, feature_names, encoding_info)
        Mask(c) == {RowAt(numeric_df, p) : p \in {r \in DOMAIN labels : labels[r] = c}}
    IN IF base.kind # "profiles" THEN base
       ELSE [base EXCEPT !.profiles = [i \in DOMAIN base.profiles |->
                [cluster_id |-> base.profiles[i].cluster_id,
                 size |-> base.profiles[i].size,
                 percentage |-> base.profiles[i].percentage,
                 centroid |-> base.profiles[i].centroid,
                 top_features |-> TopFeatures(numeric_df, scaled_df,
                                              Mask(base.profiles[i].cluster_id), tiebreak)]]]

-----------------------------------------------------------------------------
(* Specification SpecTopFeatures: one call of profile_clusters on the       *)
(* frames preprocess returns, with 1, 2 or 6 features.                      *)

MaxTopRows == 3
TopValues == {0, 1, 5}

\* The column named name whose cells are values[r].
FeatureColumn(name, values) ==
    [name |-> name, dtype |-> "number", cells |-> [r \in DOMAIN values |-> Cell(values[r])]]

\* Five further features, each a fixed pattern of the row number.
FurtherFeatures(n) ==
    << FeatureColumn("f2", [r \in 1 .. n |-> r]),
       FeatureColumn("f3", [r \in 1 .. n |-> 7 - 2 * r]),
       FeatureColumn("f4", [r \in 1 .. n |-> (r * r) % 3]),
       FeatureColumn("f5", [r \in 1 .. n |-> IF r = 1 THEN 9 ELSE 0]),
       FeatureColumn("f6", [r \in 1 .. n |-> IF r = 2 THEN 4 ELSE 1]) >>

TopFrames(n) ==
    { <<FeatureColumn("f1", v)>> : v \in [1 .. n -> TopValues] }
    \cup { <<FeatureColumn("f1", v), FeatureColumn("f2", w)>> :
                <<v, w>> \in [1 .. n -> TopValues] \X [1 .. n -> {0, 5}] }
    \cup { <<FeatureColumn("f1", v)>> \o FurtherFeatures(n) :
                v \in IF n = MaxTopRows THEN [1 .. n -> {0, 5}] ELSE {} }

InitTopFeatures ==
    /\ \E n \in 1 .. MaxTopRows : \E columns \in TopFrames(n), labels \in [1 .. n -> 0 .. 1] :
          LET numeric_df == [index |-> 1 .. n, columns |-> columns]
          IN pf_call = [numeric_df |-> numeric_df, scaled_df |-> Standardize(numeric_df),
                        labels |-> labels, feature_names |-> ColumnNames(numeric_df),
                        encoding_info |-> <<>>]
    /\ pf_result = Pending
    /\ EncIdle /\ PreIdle /\ KIdle /\ ClIdle /\ RunIdle
    /\ ClsIdle /\ EpsIdle /\ MemIdle /\ WebIdle
    /\ VizIdle /\ TkIdle /\ SvIdle

\* The call profile_clusters(numeric_df, scaled_df, labels, feature_names,
\* encoding_info) runs to its return.
ProfileTopCall ==
    /\ pf_result = Pending
    /\ \E tiebreak \in Permutations(DOMAIN pf_call.scaled_df.columns) :
          pf_result' = ProfilesWithTopFeatures(pf_call.numeric_df, pf_call.scaled_df,
                                               pf_call.labels, pf_call.feature_names,
                                               pf_call.encoding_info, tiebreak)
    /\ UNCHANGED <<pf_call, encVars, preVars, kVars, clVars, runVars,
                   clsVars, epsVars, memVars, webVars,
                   vizVars, tkVars, svVars>>

NextTopFeatures == ProfileTopCall

SpecTopFeatures == InitTopFeatures /\ [][NextTopFeatures]_vars

\* The rows of cluster c, and the signed deviation of the feature named feat
\* on them.
RowsOfCluster(call, c) ==
    {RowAt(call.numeric_df, p) : p \in {r \in DOMAIN call.labels : call.labels[r] = c}}

SignedDeviation(call, c, feat) ==
    MeanDifference(Column(call.scaled_df, feat).cells, RowsOfCluster(call, c),
                   call.scaled_df.index)

\* C24 (as claimed): every profile's top_features holds min(5, number of
\* features) entries for distinct features, in descending order of the
\* absolute difference between the cluster's standardized mean and the
\* overall standardized mean, no feature left out having a larger
\* difference; each entry's z_deviation is the signed difference (rounded to
\* 4 decimals), negative when the cluster's mean is below the overall mean.
C24_TopFeaturesSigned ==
    (pf_result # Pending /\ pf_result.kind = "profiles") =>
        \A p \in DOMAIN pf_result.profiles :
            LET top == pf_result.profiles[p].top_features
                c == pf_result.profiles[p].cluster_id
                names == Range(pf_call.feature_names)
                dev(feat) == ValueOf(SignedDeviation(pf_call, c, feat))
                AtLeast(f, g) == Abs(dev(f).num) * dev(g).den >= Abs(dev(g).num) * dev(f).den
            IN /\ Len(top) = Min(5, Len(pf_call.feature_names))
               /\ \A i, j \in DOMAIN top : i < j =>
                      /\ top[i].feature # top[j].feature
                      /\ AtLeast(top[i].feature, top[j].feature)
               /\ \A i \in DOMAIN top :
                      /\ top[i].feature \in names
                      /\ \A g \in names \ {top[j].feature : j \in DOMAIN top} :
                            AtLeast(top[i].feature, g)
                      /\ top[i].z_deviation =
                            Cell((IF dev(top[i].feature).num < 0 THEN -1 ELSE 1)
                                 * RoundHalfEven(Abs(dev(top[i].feature).num) * FourDecimals,
                                                 dev(top[i].feature).den * ScaleUnit))

-----------------------------------------------------------------------------
(* Specification SpecPercentage: profile_clusters (lines 402-408) on the    *)
(* labels of a dataset of up to max_dataset_rows rows, given by the size of *)
(* each cluster (labels 0, 1, ... in runs of those lengths).                *)

max_dataset_rows == 10000
ClusterSizes == {1, 2, 4, 5, 1999, 2000, 2001, 4999, 5000, 9995, 9996, 9999}

\* Line 408: round(size / total * 100, 1), in tenths. The quotient is a
\* float: when size / total * 100 lies halfway between two tenths the
\* rounding error of the division decides the neighbour, so both may come.
Percentages(size, total) ==
    IF 2 * ((size * 1000) % total) = total
    THEN {(size * 1000) \div total, (size * 1000) \div total + 1}
    ELSE {RoundHalfEven(size * 1000, total)}

InitPercentage ==
    /\ \E sizes \in { <<a>> : a \in ClusterSizes } \cup (ClusterSizes \X ClusterSizes) :
          /\ SumSeq(sizes) <= max_dataset_rows
          /\ pf_call = [kind |-> "sizes", sizes |-> sizes]
    /\ pf_result = Pending
    /\ EncIdle /\ PreIdle /\ KIdle /\ ClIdle /\ RunIdle
    /\ ClsIdle /\ EpsIdle /\ MemIdle /\ WebIdle
    /\ VizIdle /\ TkIdle /\ SvIdle

\* Lines 402-408 and 437-439: one profile for each label, with its size and
\* percentage.
ProfileSizesCall ==
    /\ pf_result = Pending
    /\ \E up \in [DOMAIN pf_call.sizes -> BOOLEAN] :
          pf_result' = [kind |-> "profiles",
                        profiles |-> [i \in DOMAIN pf_call.sizes |->
                            LET among == Percentages(pf_call.sizes[i], SumSeq(pf_call.sizes))
                            IN [cluster_id |-> i - 1, size |-> pf_call.sizes[i],
                                percentage |-> CHOOSE v \in among : \A w \in among :
                                                  IF up[i] THEN v >= w ELSE v <= w]]]
    /\ UNCHANGED <<pf_call, encVars, preVars, kVars, clVars, runVars,
                   clsVars, epsVars, memVars, webVars,
                   vizVars, tkVars, svVars>>

NextPercentage == ProfileSizesCall

SpecPercentage == InitPercentage /\ [][NextPercentage]_vars

\* C25 (as claimed): every profile's percentage is size / total_rows * 100
\* rounded to 1 decimal and lies in (0, 100]: it is above 0 for every
\* cluster, whatever the ratio of its size to the row count.
C25_PercentagePositive ==
    (pf_result # Pending /\ pf_result.kind = "profiles") =>
        \A i \in DOMAIN pf_result.profiles :
            LET size == pf_result.profiles[i].size
                total == SumSeq(pf_call.sizes)
                percentage == pf_result.profiles[i].percentage
            IN /\ 2 * Abs(percentage * total - size * 1000) <= total
               /\ percentage > 0
               /\ percentage <= 1000

-----------------------------------------------------------------------------
(* run (analysis_engine.py, 496-570): the pipeline, invoked twice on the    *)
(* same arguments. The router hands run() to a thread pool, so the steps of *)
(* two invocations may interleave. Numeric arrays that no step branches on  *)
(* (PCA coordinates, anomaly scores, correlations) are kept by shape only.  *)

Unset == [kind |-> "unset"]

\* Lines 512-516 moved after the numeric pipeline: the counts are taken on
\* the numeric columns once their missing cells hold the median.
MissingValuesAfterImputation(df) ==
    LET imputed == [df EXCEPT !.columns = [i \in DOMAIN df.columns |->
                       IF df.columns[i].dtype = "number"
                       THEN [df.columns[i] EXCEPT !.cells = FillNa(@, Median(@))]
                       ELSE df.columns[i]]]
        with_missing == {i \in DOMAIN imputed.columns :
                            CountNonNull(imputed.columns[i].cells) < NRows(imputed)}
    IN [name \in {imputed.columns[i].name : i \in with_missing} |->
            NRows(imputed) - CountNonNull(Column(imputed, name).cells)]

\* Lines 512-516: the count of missing cells of every column that has some.
MissingValues(df) ==
    LET missing(i) == NRows(df) - CountNonNull(df.columns[i].cells)
        with_missing == {i \in DOMAIN df.columns : missing(i) > 0}
    IN [name \in {df.columns[i].name : i \in with_missing} |->
            NRows(df) - CountNonNull(Column(df, name).cells)]

HasNaN(frame) ==
    \E i \in DOMAIN frame.columns : \E r \in frame.index : frame.columns[i].cells[r] = NaN

\* PCA(n_components=c).fit_transform(values): rejects NaN and a c above
\* min(n_samples, n_features); on a frame with a side above 500 and
\* c < 0.8 * min(shape) the solver is the randomized one, which draws from
\* numpy's global generator (random_state is not given).
PCA(n_components, frame) ==
    LET n_samples == NRows(frame)
        n_features == Len(frame.columns)
    IN IF HasNaN(frame)
       THEN [kind |-> "ValueError", message |-> "Input X contains NaN"]
       ELSE IF n_components > Min(n_samples, n_features)
       THEN [kind |-> "ValueError",
             message |-> "n_components must be between 0 and min(n_samples, n_features)"]
       ELSE [kind |-> "coords", width |-> n_components,
             draws |-> IF /\ Max(n_samples, n_features) > 500
                          /\ 10 * n_components < 8 * Min(n_samples, n_features)
                       THEN 1 ELSE 0]

\* Lines 280-289.
reduce_dimensions(scaled_df) ==
    LET n_features == Len(scaled_df.columns)
        pca_2d == PCA(Min(2, n_features), scaled_df)
        pca_3d == PCA(Min(3, n_features), scaled_df)
    IN IF pca_2d.kind # "coords" THEN pca_2d
       ELSE IF pca_3d.kind # "coords" THEN pca_3d
       ELSE [kind |-> "coords", coords_2d |-> pca_2d.width, coords_3d |-> pca_3d.width,
             rows |-> NRows(scaled_df), draws |-> pca_2d.draws + pca_3d.draws]

\* KMeans(random_state=None): the estimator draws from numpy's global generator.
unseeded_random_state == {}

\* Line 348: KMeans(n_clusters=n_clusters, n_init=10, random_state=42)
kmeans_random_state == Cell(42)

\* sklearn.utils.check_random_state: a generator of its own for an integer
\* seed, numpy's global generator (whose state every draw advances) for None.
check_random_state(seed, global_rng) ==
    IF seed = {} THEN [state |-> global_rng, draws |-> 1]
    ELSE [state |-> ValueOf(seed), draws |-> 0]

\* k-means numbers its clusters by where its random initial centres fell:
\* the same partition, its labels rotated by the generator's state.
SeededLabels(partition, k, state) ==
    [r \in DOMAIN partition |-> (partition[r] + state) % k]

\* The number of distinct rows of a frame.
DistinctRows(frame) ==
    Cardinality({[i \in DOMAIN frame.columns |-> frame.columns[i].cells[r]] : r \in frame.index})

\* The arguments of cluster(prep.scaled_df, algorithm, n_clusters) (line 527)
\* together with what the estimators do on that frame.
ClusterArgs(call, scaled_df, global_rng) ==
    LET base == [n |-> NRows(scaled_df), distinct |-> DistinctRows(scaled_df),
                 score |-> call.score, algorithm |-> call.algorithm,
                 n_clusters |-> call.n_clusters, labels |-> call.partition,
                 fit_score |-> call.fit_score, median_knn |-> call.median_knn]
        stream == check_random_state(kmeans_random_state, global_rng)
    IN IF call.algorithm = "kmeans" /\ call.partition # <<>>
       THEN [base EXCEPT !.labels = SeededLabels(call.partition, ResolveK(base), stream.state)]
       ELSE base

\* The draws cluster() makes from numpy's global generator.
ClusterDraws(call, result) ==
    IF call.algorithm = "kmeans" /\ result.kind = "clustered"
    THEN check_random_state(kmeans_random_state, 0).draws ELSE 0

\* Lines 455-457: IsolationForest(contamination, random_state=42) accepts a
\* contamination in (0, 0.5]; contamination is in hundredths here.
detect_anomalies(scaled_df, contamination) ==
    IF contamination <= 0 \/ contamination > 50
    THEN [kind |-> "ValueError",
          message |-> "The 'contamination' parameter of IsolationForest must be a float in the range (0.0, 0.5]"]
    ELSE [kind |-> "anomalies", rows |-> NRows(scaled_df)]

\* Lines 481-491: mean, min and max of every feature (means in ten-thousandths).
compute_stats(numeric_df, feature_names) ==
    [kind |-> "stats",
     column_stats |-> [col \in Range(feature_names) |->
        LET cells == Column(numeric_df, col).cells
            values == UniqueValues(cells)
        IN [mean |-> RoundedMean(cells, numeric_df.index),
            min |-> {v \in values : \A w \in values : v <= w},
            max |-> {v \in values : \A w \in values : v >= w}]]]

\* Lines 540-570.
AnalysisOutput(call, env) ==
    [kind |-> "AnalysisOutput",
     id |-> env.analysis_id,
     num_rows |-> NRows(env.prep.numeric_df),
     num_columns |-> Len(env.prep.feature_names),
     column_names |-> ColumnNames(call.df),
     algorithm |-> call.algorithm,
     params |-> env.clustered.params,
     n_clusters |-> env.clustered.n_clusters,
     silhouette_score |-> env.clustered.sil_score,
     cluster_profiles |-> env.profiles.profiles,
     cluster_labels |-> env.clustered.labels,
     pca_2d |-> env.coords.coords_2d,
     pca_3d |-> env.coords.coords_3d,
     anomaly_labels |-> env.anomalies.rows,
     column_stats |-> env.stats.column_stats,
     feature_names |-> env.prep.feature_names,
     encoding_info |-> env.prep.encoding_info,
     missing_values |-> env.missing_values,
     dropped_columns |-> env.prep.dropped_columns,
     original_column_count |-> Len(call.df.columns)]

\* An exception wrapped in one of the pipeline's own.
RaiseWrapped(error) ==
    [kind |-> "AnalysisError", message |-> "Analysis failed", cause |-> error]

\* run() has no try/except: the exception a step raises leaves run() as it is.
Raise(error) == error

-----------------------------------------------------------------------------
(* Specification SpecRun: two invocations of run() on the same arguments.   *)

MaxRunRows == 3        \* run() gets datasets of 1 .. MaxRunRows rows
Invocations == 1 .. 2
Contaminations == {5, 60}

RunOrder == <<"preprocess", "reduce_dimensions", "cluster", "profile_clusters",
              "detect_anomalies", "compute_stats">>

\* A numeric column whose first `nulls` cells are missing and whose other
\* cells cycle through k even numbers.
RunColumn(n, name, k, nulls) ==
    [name |-> name, dtype |-> "number",
     cells |-> [r \in 1 .. n |-> IF r <= nulls THEN NaN ELSE Cell(2 * ((r % k) + 1))]]

\* x1 and x2, with or without a text column c1 of two categories. x2 is
\* complete, constant or all missing; or the first row is missing from both
\* x1 and x2, so that preprocess drops it.
RunFrames(n) ==
    { [index |-> 1 .. n, columns |-> <<x[1], x[2]>> \o c1] :
        x \in ({ RunColumn(n, "x1", 3, 0), RunColumn(n, "x1", 2, 1) }
                \X { RunColumn(n, "x2", 2, 0), RunColumn(n, "x2", 1, 0), RunColumn(n, "x2", 2, n) })
              \cup { <<RunColumn(n, "x1", 2, 1), RunColumn(n, "x2", 2, 1)>> },
        c1 \in { <<>>, << [name |-> "c1", dtype |-> "object",
                          cells |-> ShapeCells(n, <<"a", "b">>, 2, 0, 0)] >> } }

\* algorithm and n_clusters: k-means and ward linkage with None or
\* 2 .. MaxClusters, dbscan, and an algorithm run() does not know.
RunParameters ==
    ({"kmeans", "hierarchical"} \X ({{}} \cup {{k} : k \in 2 .. MaxClusters}))
    \cup {<<"dbscan", {}>>, <<"spectral", {}>>}

\* What the estimators see of the frame preprocess returns for df: its row
\* count, its distinct rows and the scores of k-means' partitions.
RunFit(prep, params) ==
    LET ok == prep.kind = "PreprocessResult"
        rows == IF ok THEN NRows(prep.scaled_df) ELSE 0
        distinct == IF ok THEN DistinctRows(prep.scaled_df) ELSE 0
    IN [fits |-> ok, n |-> rows, distinct |-> distinct,
        score |-> [k \in 2 .. Min(MaxK(rows), distinct) |-> 3],
        algorithm |-> params[1], n_clusters |-> params[2],
        fit_score |-> 3, median_knn |-> 50]

\* The partitions the chosen estimator may find on that frame, numbered from
\* the first row's cluster (or noise).
RunPartitions(fit) ==
    IF fit.fits /\ fit.algorithm # "spectral" /\ EstimatorError(fit).kind = "fitted"
    THEN {l \in FitLabels(fit.algorithm, fit.n, fit.distinct, ResolveK(fit)) : l[1] <= 0}
    ELSE {<<>>}

InitRun ==
    /\ \E n \in 1 .. MaxRunRows :
       \E df \in RunFrames(n), params \in RunParameters, contamination \in Contaminations,
          categorical_columns \in {None, Some(<<"c1">>)} :
          /\ categorical_columns.list # <<>> => HasColumn(df, "c1")
          /\ \E fit \in {RunFit(preprocess(df, None, categorical_columns), params)} :
             \E partition \in RunPartitions(fit) :
                  run_call = [df |-> df, columns |-> None,
                              categorical_columns |-> categorical_columns,
                              algorithm |-> params[1], n_clusters |-> params[2],
                              contamination |-> contamination,
                              score |-> fit.score, fit_score |-> fit.fit_score,
                              median_knn |-> fit.median_knn,
                              partition |-> partition]
    /\ run_pc = [i \in Invocations |-> "start"]
    /\ run_env = [i \in Invocations |->
                    [analysis_id |-> Unset, missing_values |-> Unset, prep |-> Unset,
                     coords |-> Unset, clustered |-> Unset, profiles |-> Unset,
                     anomalies |-> Unset, stats |-> Unset]]
    /\ run_trace = [i \in Invocations |-> <<>>]
    /\ run_out = [i \in Invocations |-> Pending]
    /\ np_global_rng = 0
    /\ os_entropy = 0
    /\ EncIdle /\ PreIdle /\ KIdle /\ ClIdle /\ PfIdle
    /\ ClsIdle /\ EpsIdle /\ MemIdle /\ WebIdle
    /\ VizIdle /\ TkIdle /\ SvIdle

\* Lines 509-517: the analysis id (a random UUID) and the missing-value counts.
RunBegin(i) ==
    /\ run_pc[i] = "start"
    /\ run_env' = [run_env EXCEPT ![i].analysis_id = os_entropy,
                                  ![i].missing_values = MissingValues(run_call.df)]
    /\ os_entropy' = os_entropy + 1
    /\ run_pc' = [run_pc EXCEPT ![i] = "preprocess"]
    /\ UNCHANGED <<run_call, run_trace, run_out, np_global_rng,
                   encVars, preVars, kVars, clVars, pfVars,
                   clsVars, epsVars, memVars, webVars,
                   vizVars, tkVars, svVars>>

\* Invocation i executes `step` with the given result: a result of kind `ok`
\* is kept in the local `field` and the invocation moves to `next`; anything
\* else is an exception, which ends the invocation.
RunStep(i, step, result, ok, field, next) ==
    /\ run_pc[i] = step
    /\ run_trace' = [run_trace EXCEPT ![i] = Append(@, step)]
    /\ IF result.kind = ok
       THEN /\ run_env' = [run_env EXCEPT ![i][field] = result]
            /\ run_pc' = [run_pc EXCEPT ![i] = next]
            /\ run_out' = IF next = "done"
                          THEN [run_out EXCEPT ![i] = AnalysisOutput(run_call, run_env'[i])]
                          ELSE run_out
       ELSE /\ run_out' = [run_out EXCEPT ![i] = [kind |-> "raised", step |-> step,
                                                 error |-> Raise(result)]]
            /\ run_pc' = [run_pc EXCEPT ![i] = "raised"]
            /\ UNCHANGED run_env
    /\ UNCHANGED <<run_call, os_entropy, encVars, preVars, kVars, clVars, pfVars,
                   clsVars, epsVars, memVars, webVars,
                   vizVars, tkVars, svVars>>

\* Line 520.
RunPreprocess(i) ==
    /\ RunStep(i, "preprocess",
               preprocess(run_call.df, run_call.columns, run_call.categorical_columns),
               "PreprocessResult", "prep", "reduce_dimensions")
    /\ UNCHANGED np_global_rng

\* Line 524.
RunReduceDimensions(i) ==
    /\ run_pc[i] = "reduce_dimensions"
    /\ LET result == reduce_dimensions(run_env[i].prep.scaled_df)
       IN /\ RunStep(i, "reduce_dimensions", result, "coords", "coords", "cluster")
          /\ np_global_rng' = np_global_rng + (IF result.kind = "coords" THEN result.draws ELSE 0)

\* Line 527.
RunCluster(i) ==
    /\ run_pc[i] = "cluster"
    /\ LET result == cluster(ClusterArgs(run_call, run_env[i].prep.scaled_df, np_global_rng))
       IN /\ RunStep(i, "cluster", result, "clustered", "clustered", "profile_clusters")
          /\ np_global_rng' = np_global_rng + ClusterDraws(run_call, result)

\* Line 530.
RunProfileClusters(i) ==
    /\ run_pc[i] = "profile_clusters"
    /\ RunStep(i, "profile_clusters",
               profile_clusters(run_env[i].prep.numeric_df, run_env[i].clustered.labels,
                                run_env[i].prep.feature_names, run_env[i].prep.encoding_info),
               "profiles", "profiles", "detect_anomalies")
    /\ UNCHANGED np_global_rng

\* Line 533.
RunDetectAnomalies(i) ==
    /\ run_pc[i] = "detect_anomalies"
    /\ RunStep(i, "detect_anomalies",
               detect_anomalies(run_env[i].prep.scaled_df, run_call.contamination),
               "anomalies", "anomalies", "compute_stats")
    /\ UNCHANGED np_global_rng

\* Lines 536-570: the statistics, then the AnalysisOutput is returned.
RunComputeStats(i) ==
    /\ run_pc[i] = "compute_stats"
    /\ RunStep(i, "compute_stats",
               compute_stats(run_env[i].prep.numeric_df, run_env[i].prep.feature_names),
               "stats", "stats", "done")
    /\ UNCHANGED np_global_rng

NextRun ==
    \E i \in Invocations :
        \/ RunBegin(i)
        \/ RunPreprocess(i)
        \/ RunReduceDimensions(i)
        \/ RunCluster(i)
        \/ RunProfileClusters(i)
        \/ RunDetectAnomalies(i)
        \/ RunComputeStats(i)

SpecRun == InitRun /\ [][NextRun]_vars

-----------------------------------------------------------------------------
(* The caller's DataFrame in memory (analysis_engine.py, 31-57, 195-240,    *)
(* 496-520). Data frames are objects on a heap; a pandas operation returns  *)
(* a new object, which may be a view on the buffers of its source, and only *)
(* a column assignment (line 227) writes into an object that exists.        *)

\* An object: the frame it shows and the objects whose buffers it shares.
FrameObject(frame, shares) == [frame |-> frame, shares |-> shares]

\* The operation done on its source with inplace=True: the source takes the
\* result.
InPlaceFrame(heap, source, frame, view) ==
    Append([heap EXCEPT ![source].frame = frame], FrameObject(frame, {}))

\* df[...], select_dtypes, dropna, .loc[...], .copy(), pd.concat, drop: the
\* result is a new object, a view on its source or a copy.
NewFrame(heap, source, frame, view) ==
    Append(heap, FrameObject(frame, IF view THEN {source} \cup heap[source].shares ELSE {}))

\* The objects that show the buffers of object a.
Aliases(heap, a) == {a} \cup heap[a].shares \cup {b \in DOMAIN heap : a \in heap[b].shares}

\* obj[name] = cells (line 227). pandas either swaps the column inside obj
\* or writes the cells into the column's buffer, which every view shows; it
\* depends on the pandas version and the block layout.
SetItem(heap, obj, name, cells, write_through) ==
    [a \in DOMAIN heap |->
        IF (a = obj \/ (write_through /\ a \in Aliases(heap, obj)))
           /\ HasColumn(heap[a].frame, name)
        THEN [heap[a] EXCEPT !.frame.columns =
                [i \in DOMAIN @ |-> IF @[i].name = name
                                    THEN [@[i] EXCEPT !.cells = cells] ELSE @[i]]]
        ELSE heap[a]]

\* Lines 225-227: the loop over numeric_df.columns, from column i on.
RECURSIVE ImputeFrom(_, _, _, _)
ImputeFrom(heap, numeric_df, i, write_through) ==
    IF i > Len(heap[numeric_df].frame.columns) THEN heap
    ELSE LET col == heap[numeric_df].frame.columns[i]
         IN ImputeFrom(SetItem(heap, numeric_df, col.name,
                               FillNa(col.cells, Median(col.cells)), write_through),
                       numeric_df, i + 1, write_through)

\* Lines 46-57 and 191: pd.DataFrame(index=df.index) when no column is to be
\* encoded; else df[cat_cols], its copy, cat_df[valid_cols] and the frame
\* pd.concat builds.
EncoderHeap(heap, df, categorical_columns) ==
    LET frame == heap[df].frame
        cat_cols == ExistingColumns(frame, categorical_columns)
        picked == [index |-> frame.index,
                   columns |-> [i \in DOMAIN cat_cols |-> Column(frame, cat_cols[i])]]
        valid_cols == ValidColumns(picked, cat_cols)
        valid == [index |-> frame.index,
                  columns |-> [i \in DOMAIN valid_cols |-> Column(frame, valid_cols[i])]]
        encoded_df == encode_categoricals(frame, categorical_columns,
                                          cardinality_threshold_default,
                                          max_total_features_default).encoded_df
    IN IF categorical_columns = <<>> \/ cat_cols = <<>>
       THEN NewFrame(heap, df, EmptyFrame(frame.index), FALSE)
       ELSE Append(NewFrame(NewFrame(NewFrame(heap, df, picked, FALSE),
                                     Len(heap) + 1, picked, FALSE),
                            Len(heap) + 2, valid, FALSE),
                   FrameObject(encoded_df, {}))

\* Lines 229-232: encode_categoricals gets df.loc[numeric_df.index].
PreprocessEncoderHeap(heap, df, numeric_df, categorical_columns) ==
    IF categorical_columns.is_none \/ categorical_columns.list = <<>> THEN heap
    ELSE EncoderHeap(NewFrame(heap, df, LocRows(heap[df].frame, heap[numeric_df].frame.index),
                              FALSE),
                     Len(heap) + 1, categorical_columns.list)

\* Line 223 on the newest object, numeric_df.
DropRowsHeap(heap) ==
    IF heap[Len(heap)].frame.columns # <<>>
    THEN NewFrame(heap, Len(heap), DropEmptyRows(heap[Len(heap)].frame), FALSE)
    ELSE heap

\* Line 219 on the newest object, numeric_df; the threshold is that of the
\* frame before the drop.
DropColumnsHeap(heap) ==
    LET numeric_df == heap[Len(heap)].frame
        Kept(c) == KeptByThresh(c.cells, NRows(numeric_df))
    IN NewFrame(heap, Len(heap), [numeric_df EXCEPT !.columns = FilterColumns(@, Kept)], FALSE)

\* Lines 209-212: df[columns] is a frame of its own, select_dtypes on df
\* itself may return a view.
SelectHeap(heap, df, columns, view) ==
    NewFrame(heap, df, SelectNumeric(heap[df].frame, columns), view /\ columns.is_none)

\* The heap preprocess leaves: nothing is built when df[columns] raises;
\* else the numeric pipeline, the encoder's frames, and the two frames of
\* the PreprocessResult when it returns.
PreprocessImputedHeap(heap, df, call, result) ==
    LET encoded == PreprocessEncoderHeap(heap, df, Len(heap), call.categorical_columns)
    IN IF result.kind = "PreprocessResult"
       THEN encoded \o <<FrameObject(result.numeric_df, {}), FrameObject(result.scaled_df, {})>>
       ELSE encoded

PreprocessHeap(heap, df, call) ==
    IF ~call.columns.is_none /\ MissingFromFrame(heap[df].frame, call.columns.list) # {}
    THEN heap
    ELSE PreprocessImputedHeap(
            ImputeFrom(DropRowsHeap(DropColumnsHeap(SelectHeap(heap, df, call.columns, call.view))),
                       Len(DropRowsHeap(DropColumnsHeap(SelectHeap(heap, df, call.columns, call.view)))),
                       1, call.write_through),
            df, call,
            preprocess(heap[df].frame, call.columns, call.categorical_columns))

\* What run() ends with: the exception of the first step that raises, or the
\* AnalysisOutput (by its shape).
RunProfiled(call, prep, clustered) ==
    LET profiles == profile_clusters(prep.numeric_df, clustered.labels,
                                     prep.feature_names, prep.encoding_info)
        anomalies == detect_anomalies(prep.scaled_df, call.contamination)
    IN IF profiles.kind # "profiles" THEN profiles
       ELSE IF anomalies.kind # "anomalies" THEN anomalies
       ELSE [kind |-> "AnalysisOutput", num_rows |-> NRows(prep.numeric_df),
             feature_names |-> prep.feature_names, n_clusters |-> clustered.n_clusters]

RunPreprocessed(call, prep) ==
    LET coords == reduce_dimensions(prep.scaled_df)
        clustered == cluster(ClusterArgs(call, prep.scaled_df, 0))
    IN IF coords.kind # "coords" THEN coords
       ELSE IF clustered.kind # "clustered" THEN clustered
       ELSE RunProfiled(call, prep, clustered)

RunOutcome(call) ==
    LET prep == preprocess(call.df, call.columns, call.categorical_columns)
    IN IF prep.kind # "PreprocessResult" THEN prep ELSE RunPreprocessed(call, prep)

\* What the called function returns or raises.
EngineOutcome(call) ==
    IF call.function = "encode_categoricals"
    THEN encode_categoricals(call.df, call.categorical_columns.list,
                             cardinality_threshold_default, max_total_features_default)
    ELSE IF call.function = "preprocess"
    THEN preprocess(call.df, call.columns, call.categorical_columns)
    ELSE RunOutcome(call)

\* The heap the called function leaves; run() builds no frame outside
\* preprocess (lines 512-516 read df, the later steps get prep's frames).
EngineHeap(heap, df, call) ==
    IF call.function = "encode_categoricals"
    THEN EncoderHeap(heap, df, call.categorical_columns.list)
    ELSE PreprocessHeap(heap, df, call)

-----------------------------------------------------------------------------
(* Specification SpecBorrow: one call of encode_categoricals, preprocess or *)
(* run() on a DataFrame the caller holds at address Caller.                 *)

MaxHeapRows == 3      \* the caller's dataset has 1 .. MaxHeapRows rows
Caller == 1

EngineFunctions == {"encode_categoricals", "preprocess", "run"}

\* The allowlists: none, both numeric columns, one that names a missing column.
HeapColumnLists == { None, Some(<<"x1", "x2">>), Some(<<"x1", "ghost">>) }
HeapCategoricalLists == { None, Some(<<"c1">>), Some(<<"ghost", "c1">>) }

\* The datasets of SpecRun, and one whose first row has no number, whose
\* second row lacks x1 and whose x1 is constant once imputed.
HeapFrames(n) ==
    RunFrames(n)
    \cup { [index |-> 1 .. n,
            columns |-> <<RunColumn(n, "x1", 2, Min(2, n)), RunColumn(n, "x2", 2, 1)>> \o c1] :
             c1 \in { <<>>, << [name |-> "c1", dtype |-> "object",
                               cells |-> ShapeCells(n, <<"a", "b">>, 2, 0, 0)] >> } }

InitBorrow ==
    /\ \E n \in 1 .. MaxHeapRows :
       \E df \in HeapFrames(n), function \in EngineFunctions,
          columns \in HeapColumnLists, categorical_columns \in HeapCategoricalLists,
          params \in {<<"kmeans", {}>>, <<"dbscan", {}>>, <<"spectral", {}>>},
          view \in BOOLEAN, write_through \in BOOLEAN :
          /\ function # "run" => params[1] = "kmeans"
          /\ function = "encode_categoricals" => (columns.is_none /\ ~view /\ ~write_through)
          /\ \E fit \in {RunFit(preprocess(df, columns, categorical_columns), params)} :
             \E partition \in (IF function = "run" THEN RunPartitions(fit) ELSE {<<>>}) :
                  mem_call = [function |-> function, df |-> df, columns |-> columns,
                              categorical_columns |-> categorical_columns,
                              algorithm |-> params[1], n_clusters |-> params[2],
                              contamination |-> 5,
                              score |-> fit.score, fit_score |-> fit.fit_score,
                              median_knn |-> fit.median_knn, partition |-> partition,
                              view |-> view, write_through |-> write_through]
                  /\ mem_heap = <<FrameObject(df, {})>>
    /\ mem_result = Pending
    /\ EncIdle /\ PreIdle /\ KIdle /\ ClIdle /\ PfIdle /\ RunIdle
    /\ ClsIdle /\ EpsIdle /\ WebIdle
    /\ VizIdle /\ TkIdle /\ SvIdle

\* The call runs to its return or to the exception it raises.
EngineCall ==
    /\ mem_result = Pending
    /\ mem_result' = EngineOutcome(mem_call)
    /\ mem_heap' = EngineHeap(mem_heap, Caller, mem_call)
    /\ UNCHANGED <<mem_call, encVars, preVars, kVars, clVars, pfVars, runVars,
                   clsVars, epsVars, webVars,
                   vizVars, tkVars, svVars>>

NextBorrow == EngineCall

SpecBorrow == InitBorrow /\ [][NextBorrow]_vars

-----------------------------------------------------------------------------
(* Claims about the caller's DataFrame, checked under SpecBorrow.           *)

\* C19: after run(), preprocess() or encode_categoricals() returned or
\* raised, the caller's dataset has the columns, rows and cell values it had
\* before the call.
C19_CallerFrameUntouched ==
    mem_result # Pending => mem_heap[Caller].frame = mem_call.df

\* C19 witness: preprocess has returned a frame in which it dropped a row
\* with no numeric value, imputed a missing cell and dropped a column.
C19_Witness ==
    /\ mem_result.kind = "PreprocessResult"
    /\ NRows(mem_result.numeric_df) < NRows(mem_call.df)
    /\ \E i \in DOMAIN mem_call.df.columns :
          /\ mem_call.df.columns[i].dtype = "number"
          /\ \E r \in mem_result.numeric_df.index : mem_call.df.columns[i].cells[r] = NaN
    /\ mem_result.dropped_columns # <<>>

-----------------------------------------------------------------------------
(* Claims about run, checked under SpecRun.                                 *)

IsPrefix(s, t) == Len(s) <= Len(t) /\ \A j \in DOMAIN s : s[j] = t[j]

\* What each step does on the arguments of the call, worked out from the
\* arguments alone; prep is what preprocess does on them.
ExpectedPrep == preprocess(run_call.df, run_call.columns, run_call.categorical_columns)
ExpectedResult(step, prep) ==
    CASE step = "preprocess" -> prep
      [] step = "reduce_dimensions" -> reduce_dimensions(prep.scaled_df)
      [] step = "cluster" -> cluster(ClusterArgs(run_call, prep.scaled_df, 0))
      [] step = "profile_clusters" ->
            profile_clusters(prep.numeric_df,
                             cluster(ClusterArgs(run_call, prep.scaled_df, 0)).labels,
                             prep.feature_names, prep.encoding_info)
      [] step = "detect_anomalies" -> detect_anomalies(prep.scaled_df, run_call.contamination)
      [] step = "compute_stats" -> compute_stats(prep.numeric_df, prep.feature_names)
Succeeds(step, prep) ==
    ExpectedResult(step, prep).kind \in {"PreprocessResult", "coords", "clustered",
                                         "profiles", "anomalies", "stats"}

\* The position in RunOrder of the first step that fails on these arguments,
\* Len(RunOrder) + 1 when none does.
RECURSIVE FirstFailure(_, _)
FirstFailure(j, prep) ==
    IF j > Len(RunOrder) THEN j
    ELSE IF Succeeds(RunOrder[j], prep) THEN FirstFailure(j + 1, prep) ELSE j

\* C6: the steps an invocation has executed are a prefix of preprocess,
\* reduce_dimensions, cluster, profile_clusters, detect_anomalies,
\* compute_stats (so none is skipped, reordered or run twice) that stops at
\* the first step that fails; the invocation that executed the failing step
\* has ended with exactly that step's error and without an AnalysisOutput,
\* and an AnalysisOutput is returned only after all six steps succeeded.
C6_PipelineOrder ==
    \A prep \in {ExpectedPrep} : \A fail \in {FirstFailure(1, prep)} :
    \A i \in Invocations :
        /\ IsPrefix(run_trace[i], RunOrder)
        /\ Len(run_trace[i]) <= fail
        /\ run_out[i].kind \in {"pending", "raised", "AnalysisOutput"}
        /\ run_out[i].kind = "raised" <=> Len(run_trace[i]) = fail
        /\ run_out[i].kind = "raised" =>
            /\ run_out[i].error = ExpectedResult(RunOrder[fail], prep)
            /\ run_pc[i] = "raised"
        /\ run_out[i].kind = "AnalysisOutput" =>
            (run_trace[i] = RunOrder /\ fail > Len(RunOrder) /\ run_pc[i] = "done")

\* C6 witness: an invocation failed in its third step, cluster, on an unknown
\* algorithm, after preprocess and reduce_dimensions had run.
C6_Witness ==
    \E i \in Invocations :
        /\ run_out[i].kind = "raised"
        /\ run_trace[i] = <<"preprocess", "reduce_dimensions", "cluster">>
        /\ run_out[i].error.message = "Unknown algorithm: spectral"

C12_MissingBeforeImputation ==
    \A i \in Invocations :
        run_out[i].kind = "AnalysisOutput" =>
            LET df == run_call.df
                nulls == [c \in Range(ColumnNames(df)) |->
                            Cardinality({r \in df.index : Column(df, c).cells[r] = NaN})]
                counted == run_out[i].missing_values
            IN /\ DOMAIN counted = {c \in Range(ColumnNames(df)) : nulls[c] > 0}
               /\ \A c \in DOMAIN counted : counted[c] = nulls[c]
               /\ run_out[i].original_column_count = Len(df.columns)

\* C12 witness: an output for a dataset of three columns, two of them with a
\* missing cell in a row that preprocess dropped, the third left out of the
\* features: both counts are reported although no cell of the frame analysed
\* is missing.
C12_Witness ==
    \E i \in Invocations :
        /\ run_out[i].kind = "AnalysisOutput"
        /\ run_out[i].original_column_count = 3
        /\ run_out[i].num_columns = 2
        /\ run_out[i].num_rows < NRows(run_call.df)
        /\ DOMAIN run_out[i].missing_values = {"x1", "x2"}
        /\ ~HasNaN(run_env[i].prep.numeric_df)

-----------------------------------------------------------------------------
(* POST /analyze (routers/analysis.py, 24-88 and 162-171). The handler is a *)
(* coroutine: it is suspended at each await (download_dataset, the engine   *)
(* run and generate_all in the executor), and the handlers of other          *)
(* requests run meanwhile. Texts are sequences of characters.               *)

ErrorLimit == 200     \* line 83: str(e)[:200]
PendingTtl == 3600    \* line 168: seconds after which a pending analysis is evicted

\* urllib.parse.quote of one character: letters, digits and _ . - ~ / stay,
\* the others become their percent escape.
QuoteChar(c) ==
    IF c = " " THEN <<"%", "2", "0">>
    ELSE IF c = ":" THEN <<"%", "3", "A">>
    ELSE IF c = "&" THEN <<"%", "2", "6">>
    ELSE IF c = "=" THEN <<"%", "3", "D">>
    ELSE <<c>>

\* urllib.parse.quote(text), by halves.
RECURSIVE quote(_)
quote(text) ==
    IF text = <<>> THEN <<>>
    ELSE IF Len(text) = 1 THEN QuoteChar(text[1])
    ELSE quote(SubSeq(text, 1, Len(text) \div 2))
         \o quote(SubSeq(text, Len(text) \div 2 + 1, Len(text)))

\* text[:limit]
Prefix(text, limit) == SubSeq(text, 1, Min(Len(text), limit))

\* Lines 81-88: the answer of the except branch.
ErrorRedirect(form, message) ==
    [status_code |-> 303, path |-> <<"dataset", form.source, form.dataset_id>>,
     query |-> [name |-> quote(form.name), url |-> quote(form.url),
                error |-> quote(Prefix(message, ErrorLimit))]]

\* Line 79.
AnalysisRedirect(analysis_id) ==
    [status_code |-> 303, path |-> <<"analysis", analysis_id>>, query |-> <<>>]

\* visualization.generate_all (lines 299-322): the charts of the generators
\* that did not raise, in the generators' order.
Generators == <<"scatter_2d", "scatter_3d", "cluster_sizes", "feature_boxplots",
                "correlation_heatmap", "silhouette_plot", "parallel_coordinates",
                "anomaly_overlay", "feature_distributions">>
\* The except branch re-raising instead of going on with the next generator.
AbortOnGeneratorError(acc, gen) ==
    [acc EXCEPT !.tried = Append(@, gen), !.raised = TRUE]

\* Lines 318-319: the exception is logged and the loop goes on.
SkipOnGeneratorError(acc, gen) ==
    [acc EXCEPT !.tried = Append(@, gen), !.warnings = Append(@, gen)]

\* Lines 314-319 from generator i on: acc holds the charts appended, the
\* generators called and the warnings logged so far.
RECURSIVE GenerateFrom(_, _, _)
GenerateFrom(failing, i, acc) ==
    IF i > Len(Generators) \/ acc.raised THEN acc
    ELSE GenerateFrom(failing, i + 1,
            IF Generators[i] \in failing
            THEN SkipOnGeneratorError(acc, Generators[i])
            ELSE [acc EXCEPT !.tried = Append(@, Generators[i]),
                             !.charts = Append(@, Generators[i])])

\* generate_all with what it did besides returning the charts.
GenerateAllRun(failing) ==
    GenerateFrom(failing, 1, [charts |-> <<>>, tried |-> <<>>, warnings |-> <<>>,
                              raised |-> FALSE])

generate_all(failing) == GenerateAllRun(failing).charts

-----------------------------------------------------------------------------
(* Specification SpecCharts: one call of generate_all on an analysis on     *)
(* which any of the generators may raise.                                    *)

InitCharts ==
    /\ \E failing \in SUBSET Range(Generators) : viz_call = [failing |-> failing]
    /\ viz_result = Pending
    /\ EncIdle /\ PreIdle /\ KIdle /\ ClIdle /\ PfIdle /\ RunIdle
    /\ ClsIdle /\ EpsIdle /\ MemIdle /\ WebIdle /\ TkIdle /\ SvIdle

\* The call generate_all(analysis) runs to its return or to the exception
\* that leaves it.
GenerateAllCall ==
    /\ viz_result = Pending
    /\ viz_result' = [kind |-> "generate_all"] @@ GenerateAllRun(viz_call.failing)
    /\ UNCHANGED <<viz_call, encVars, preVars, kVars, clVars, pfVars, runVars,
                   clsVars, epsVars, memVars, webVars, tkVars, svVars>>

NextCharts == GenerateAllCall

SpecCharts == InitCharts /\ [][NextCharts]_vars

StorePending(pending, analysis, charts, now) ==
    [id \in DOMAIN pending \cup {analysis.id} |->
        IF id = analysis.id
        THEN [analysis |-> analysis, charts |-> charts, created_at |-> now]
        ELSE pending[id]]

\* _evict_old_pending (lines 162-171).
evict_old_pending(pending, now) ==
    [id \in {i \in DOMAIN pending : ~(now - pending[i].created_at > PendingTtl)} |-> pending[id]]

\* The handler stores the analysis at line 70, after the await of
\* generate_all; here it would store at line 63, once run() has returned.
StoreAfterRun == "run"

\* Lines 63-74: the await after which the handler stores the analysis.
StoreAfter == "charts"

-----------------------------------------------------------------------------
(* Specification SpecAnalyze: two POST /analyze requests in flight.          *)

Requests == 1 .. 2
MaxTicks == 3         \* the clock advances at most MaxTicks times

\* One tick of the clock: a little over half the time to live.
TickSeconds == PendingTtl \div 2 + 1

Forms ==
    { [source |-> "test", dataset_id |-> "iris", name |-> <<"I", "r", "i", "s">>,
       url |-> <<"h", "t", "t", "p", ":", "/", "/", "x", ".", "c", "s", "v">>,
       dataset_description |-> ""],
      [source |-> "upload", dataset_id |-> "d1", name |-> <<"M", "y", " ", "d", "&", "a">>,
       url |-> <<>>, dataset_description |-> "survey"] }

\* str(e): "File not found", and a text longer than the limit.
Messages ==
    { <<"F", "i", "l", "e", " ", "n", "o", "t", " ", "f", "o", "u", "n", "d">>,
      [i \in 1 .. ErrorLimit + 5 |-> IF i % 7 = 0 THEN " " ELSE "x"] }

\* What the collaborators of a request do: every step succeeds, or the
\* named step raises an exception with the given text. Chart generators may
\* fail one by one inside generate_all.
Scenarios ==
    { [fails |-> "none", message |-> <<>>, failing_charts |-> f] :
        f \in {{}, {"scatter_3d", "silhouette_plot"}} }
    \cup { [fails |-> step, message |-> m, failing_charts |-> {}] :
            step \in {"download", "load", "run", "charts"}, m \in Messages }

InitAnalyze ==
    /\ \E forms \in [Requests -> Forms], scenarios \in [Requests -> Scenarios] :
         web_call = [r \in Requests |-> [form |-> forms[r], scenario |-> scenarios[r],
                                        analysis_id |-> r]]
    /\ web_pc = [r \in Requests |-> "download"]
    /\ web_resp = [r \in Requests |-> Pending]
    /\ pending_analyses = <<>>
    /\ web_clock = 0
    /\ EncIdle /\ PreIdle /\ KIdle /\ ClIdle /\ PfIdle /\ RunIdle
    /\ ClsIdle /\ EpsIdle /\ MemIdle
    /\ VizIdle /\ TkIdle /\ SvIdle

\* The AnalysisOutput run() returns for request r, with the description of
\* line 63 attached.
AnalysisOf(r) ==
    [id |-> web_call[r].analysis_id, dataset_id |-> web_call[r].form.dataset_id,
     dataset_description |-> web_call[r].form.dataset_description]

\* The except branch (lines 81-88) ends the request.
Fail(r) ==
    /\ web_resp' = [web_resp EXCEPT ![r] = ErrorRedirect(web_call[r].form,
                                                         web_call[r].scenario.message)]
    /\ web_pc' = [web_pc EXCEPT ![r] = "done"]
    /\ UNCHANGED pending_analyses

\* Lines 41-46: download_dataset has finished; load_dataframe, then run()
\* goes to the executor.
WebDownloaded(r) ==
    /\ web_pc[r] = "download"
    /\ IF web_call[r].scenario.fails \in {"download", "load"}
       THEN Fail(r)
       ELSE /\ web_pc' = [web_pc EXCEPT ![r] = "run"]
            /\ UNCHANGED <<web_resp, pending_analyses>>
    /\ UNCHANGED <<web_call, web_clock, encVars, preVars, kVars, clVars, pfVars, runVars,
                   clsVars, epsVars, memVars,
                   vizVars, tkVars, svVars>>

\* Lines 46-66: run() has finished in the executor; the description is
\* attached and generate_all goes to the executor.
WebRunDone(r) ==
    /\ web_pc[r] = "run"
    /\ IF web_call[r].scenario.fails = "run"
       THEN Fail(r)
       ELSE /\ web_pc' = [web_pc EXCEPT ![r] = "charts"]
            /\ pending_analyses' =
                 IF StoreAfter = "run"
                 THEN evict_old_pending(StorePending(pending_analyses, AnalysisOf(r),
                                                     <<>>, web_clock), web_clock)
                 ELSE pending_analyses
            /\ UNCHANGED web_resp
    /\ UNCHANGED <<web_call, web_clock, encVars, preVars, kVars, clVars, pfVars, runVars,
                   clsVars, epsVars, memVars,
                   vizVars, tkVars, svVars>>

\* Lines 66-79: generate_all has finished in the executor; the analysis is
\* stored, old entries are evicted and the redirect is returned.
WebChartsDone(r) ==
    /\ web_pc[r] = "charts"
    /\ IF web_call[r].scenario.fails = "charts"
       THEN Fail(r)
       ELSE /\ web_pc' = [web_pc EXCEPT ![r] = "done"]
            /\ pending_analyses' =
                 IF StoreAfter = "charts"
                 THEN evict_old_pending(
                        StorePending(pending_analyses, AnalysisOf(r),
                                     generate_all(web_call[r].scenario.failing_charts),
                                     web_clock), web_clock)
                 ELSE pending_analyses
            /\ web_resp' = [web_resp EXCEPT ![r] = AnalysisRedirect(web_call[r].analysis_id)]
    /\ UNCHANGED <<web_call, web_clock, encVars, preVars, kVars, clVars, pfVars, runVars,
                   clsVars, epsVars, memVars,
                   vizVars, tkVars, svVars>>

\* Time passes.
Tick ==
    /\ web_clock < MaxTicks * TickSeconds
    /\ web_clock' = web_clock + TickSeconds
    /\ UNCHANGED <<web_call, web_pc, web_resp, pending_analyses,
                   encVars, preVars, kVars, clVars, pfVars, runVars,
                   clsVars, epsVars, memVars,
                   vizVars, tkVars, svVars>>

NextAnalyze ==
    \/ \E r \in Requests : WebDownloaded(r)
    \/ \E r \in Requests : WebRunDone(r)
    \/ \E r \in Requests : WebChartsDone(r)
    \/ Tick

SpecAnalyze == InitAnalyze /\ [][NextAnalyze]_vars

-----------------------------------------------------------------------------
(* Claims about POST /analyze, checked under SpecAnalyze.                   *)

-----------------------------------------------------------------------------
(* Tickets (services/ticket_service.py, 37-178; database.py, 40-53). Every  *)
(* call opens its own connection and is a coroutine, suspended at each      *)
(* await: between the SELECT of update_ticket (line 123) and its UPDATE and *)
(* commit (lines 162-163) the calls of other requests run. A statement and  *)
(* its commit are one step. The table is the sequence of its rows, a        *)
(* ticket's id being its position (AUTOINCREMENT, no call of these deletes).*)

TicketStatuses == {"open", "in_progress", "solved", "wont_fix"}
Closed == {"solved", "wont_fix"}        \* (TicketStatus.SOLVED, TicketStatus.WONT_FIX)

NotGiven == "None"                     \* a field of TicketUpdate left at None

\* Lines 43-46 and the column defaults of the table: status 'open', solved_at NULL.
NewTicket == [status |-> "open", solved_at |-> "NULL"]

\* Lines 139-144: what the SET clause does to solved_at, decided on the row
\* read at line 123.
SolvedAtField(status, existing) ==
    IF status = NotGiven THEN NotGiven
    ELSE IF status \in Closed THEN "now"
    ELSE IF existing.status \in Closed THEN "NULL"
    ELSE NotGiven

\* Lines 127-161: the SET clause of the UPDATE. data.status is a status or
\* NotGiven; data.other says whether any of title, description,
\* priority, tags, resolution is given.
UpdateFields(data, existing) ==
    [status |-> data.status, solved_at |-> SolvedAtField(data.status, existing),
     empty |-> data.status = NotGiven /\ ~data.other]

\* Line 162: the UPDATE on the stored row.
ApplyUpdate(row, fields) ==
    [status |-> IF fields.status = NotGiven THEN row.status ELSE fields.status,
     solved_at |-> IF fields.solved_at = NotGiven THEN row.solved_at ELSE fields.solved_at]

-----------------------------------------------------------------------------
(* Specification SpecTickets: two clients, each making up to MaxTicketCalls *)
(* calls of create_ticket, update_ticket and solve_ticket, one at a time.   *)

Clients == 1 .. 2
MaxTickets == 2
MaxTicketCalls == 2

TicketUpdates == [status : TicketStatuses \cup {NotGiven}, other : BOOLEAN]

IdleClient(calls) == [pc |-> "idle", calls |-> calls]

InitTickets ==
    /\ tk_db = <<>>
    /\ tk_proc = [p \in Clients |-> IdleClient(0)]
    /\ EncIdle /\ PreIdle /\ KIdle /\ ClIdle /\ PfIdle /\ RunIdle
    /\ ClsIdle /\ EpsIdle /\ MemIdle /\ WebIdle
    /\ VizIdle /\ SvIdle

CanCall(p) == tk_proc[p].pc = "idle" /\ tk_proc[p].calls < MaxTicketCalls

\* create_ticket (lines 37-52): the INSERT and its commit.
CreateTicket(p) ==
    /\ CanCall(p)
    /\ Len(tk_db) < MaxTickets
    /\ tk_db' = Append(tk_db, NewTicket)
    /\ tk_proc' = [tk_proc EXCEPT ![p] = IdleClient(@.calls + 1)]
    /\ UNCHANGED <<encVars, preVars, kVars, clVars, pfVars, runVars,
                   clsVars, epsVars, memVars, webVars, vizVars, svVars>>

\* update_ticket up to its UPDATE (lines 121-161): the row is read, the call
\* returns when there is no such ticket or nothing to set, and the SET
\* clause is built otherwise.
UpdateRead(p, ticket_id, data) ==
    /\ CanCall(p)
    /\ tk_proc' = [tk_proc EXCEPT ![p] =
            IF ticket_id \notin DOMAIN tk_db THEN IdleClient(@.calls + 1)
            ELSE IF UpdateFields(data, tk_db[ticket_id]).empty THEN IdleClient(@.calls + 1)
            ELSE [pc |-> "update", calls |-> @.calls + 1, ticket_id |-> ticket_id,
                  fields |-> UpdateFields(data, tk_db[ticket_id])]]
    /\ UNCHANGED tk_db
    /\ UNCHANGED <<encVars, preVars, kVars, clVars, pfVars, runVars,
                   clsVars, epsVars, memVars, webVars, vizVars, svVars>>

\* update_ticket(ticket_id, data), first part.
UpdateTicket(p) ==
    \E ticket_id \in 1 .. MaxTickets, data \in TicketUpdates : UpdateRead(p, ticket_id, data)

\* solve_ticket (lines 170-178): update_ticket with status SOLVED and a
\* resolution, first part.
SolveTicket(p) ==
    \E ticket_id \in 1 .. MaxTickets :
        UpdateRead(p, ticket_id, [status |-> "solved", other |-> TRUE])

\* Lines 162-165: the UPDATE and its commit.
UpdateWrite(p) ==
    /\ tk_proc[p].pc = "update"
    /\ tk_db' = [tk_db EXCEPT ![tk_proc[p].ticket_id] = ApplyUpdate(@, tk_proc[p].fields)]
    /\ tk_proc' = [tk_proc EXCEPT ![p] = IdleClient(@.calls)]
    /\ UNCHANGED <<encVars, preVars, kVars, clVars, pfVars, runVars,
                   clsVars, epsVars, memVars, webVars, vizVars, svVars>>

NextTickets ==
    \/ \E p \in Clients : CreateTicket(p)
    \/ \E p \in Clients : UpdateTicket(p)
    \/ \E p \in Clients : SolveTicket(p)
    \/ \E p \in Clients : UpdateWrite(p)

SpecTickets == InitTickets /\ [][NextTickets]_vars

-----------------------------------------------------------------------------
(* Claims about tickets, checked under SpecTickets.                         *)

\* C28 (as claimed): after any sequence and any interleaving of concurrent
\* calls of create_ticket, update_ticket and solve_ticket, every stored
\* ticket has solved_at set if and only if its status is solved or wont_fix.
C28_SolvedAtIffClosed ==
    \A id \in DOMAIN tk_db : tk_db[id].solved_at # "NULL" <=> tk_db[id].status \in Closed

-----------------------------------------------------------------------------
(* Pending analyses after POST /analyze: GET /analysis/{id}/detail and      *)
(* /insights (routers/analysis.py, 90-144), POST /analysis/{id}/save        *)
(* (routers/saved.py, 18-42) and save_analysis (services/storage.py,        *)
(* 13-69). save is a coroutine: it reads pending_analyses, awaits           *)
(* save_analysis, whose INSERTs and commit run on the connection's thread,  *)
(* and is resumed later, other handlers running in between. The analyses    *)
(* table is kept as the number of rows committed under each id.             *)

NotFound == "Analysis not found or expired. Please run the analysis again."
Saved == "Analysis saved successfully!"
FailedToSave == "Failed to save"

\* Lines 36-54 of storage.py on a table whose id column is the PRIMARY KEY:
\* the INSERT raises IntegrityError when a row has the id.
InsertRaises(table, id) == table[id] > 0

\* Line 30 of saved.py: del pending_analyses[analysis_id].
DelPending(pending, id) == [i \in DOMAIN pending \ {id} |-> pending[i]]

\* What a handler hands out of a pending entry: the endpoint, the analysis
\* id and the age of the entry when the handler read it.
Handout(endpoint, entry, now) ==
    [endpoint |-> endpoint, id |-> entry.analysis.id, age |-> now - entry.created_at]

-----------------------------------------------------------------------------
(* Specification SpecPending: two POST /analyze requests, two save requests *)
(* and up to MaxViews detail or insights requests, while time passes.       *)

Savers == 1 .. 2
MaxViews == 2

InitPending ==
    /\ web_call = [r \in Requests |->
                     [form |-> CHOOSE f \in Forms : f.source = "test",
                      scenario |-> [fails |-> "none", message |-> <<>>, failing_charts |-> {}],
                      analysis_id |-> r]]
    /\ web_pc = [r \in Requests |-> "download"]
    /\ web_resp = [r \in Requests |-> Pending]
    /\ pending_analyses = <<>>
    /\ web_clock = 0
    /\ sv_proc = [s \in Savers |-> [pc |-> "idle"]]
    /\ db_analyses = [id \in Requests |-> 0]
    /\ served = <<>>
    /\ EncIdle /\ PreIdle /\ KIdle /\ ClIdle /\ PfIdle /\ RunIdle
    /\ ClsIdle /\ EpsIdle /\ MemIdle
    /\ VizIdle /\ TkIdle

\* save, lines 21-28: the entry is looked up; the request is answered when
\* there is none, and save_analysis is awaited otherwise.
SaveRead(s, analysis_id) ==
    /\ sv_proc[s].pc = "idle"
    /\ IF analysis_id \notin DOMAIN pending_analyses
       THEN /\ sv_proc' = [sv_proc EXCEPT ![s] =
                    [pc |-> "done", analysis_id |-> analysis_id, committed |-> FALSE,
                     response |-> NotFound]]
            /\ UNCHANGED served
       ELSE /\ sv_proc' = [sv_proc EXCEPT ![s] =
                    [pc |-> "save_analysis", analysis_id |-> analysis_id,
                     pending |-> pending_analyses[analysis_id]]]
            /\ served' = Append(served, Handout("save", pending_analyses[analysis_id],
                                                 web_clock))
    /\ UNCHANGED <<db_analyses, webVars, encVars, preVars, kVars, clVars, pfVars, runVars,
                   clsVars, epsVars, memVars, vizVars, tkVars>>

\* POST /analysis/{analysis_id}/save arrives.
SaveRequest(s) == \E analysis_id \in Requests : SaveRead(s, analysis_id)

\* save_analysis, lines 36-65 of storage.py: the INSERTs and the commit, or
\* the exception of the INSERT, which save catches (lines 38-42).
SaveAnalysis(s) ==
    /\ sv_proc[s].pc = "save_analysis"
    /\ IF InsertRaises(db_analyses, sv_proc[s].pending.analysis.id)
       THEN /\ sv_proc' = [sv_proc EXCEPT ![s] =
                    [pc |-> "done", analysis_id |-> @.analysis_id, committed |-> FALSE,
                     response |-> FailedToSave]]
            /\ UNCHANGED db_analyses
       ELSE /\ db_analyses' = [db_analyses EXCEPT ![sv_proc[s].pending.analysis.id] = @ + 1]
            /\ sv_proc' = [sv_proc EXCEPT ![s] =
                    [pc |-> "resume", analysis_id |-> @.analysis_id]]
    /\ UNCHANGED <<served, webVars, encVars, preVars, kVars, clVars, pfVars, runVars,
                   clsVars, epsVars, memVars, vizVars, tkVars>>

\* save, lines 30-42, resumed after save_analysis has returned: the entry is
\* deleted and the success message returned; del raises KeyError when the
\* entry is gone, which the except branch answers.
SaveResume(s) ==
    /\ sv_proc[s].pc = "resume"
    /\ IF sv_proc[s].analysis_id \in DOMAIN pending_analyses
       THEN /\ pending_analyses' = DelPending(pending_analyses, sv_proc[s].analysis_id)
            /\ sv_proc' = [sv_proc EXCEPT ![s] =
                    [pc |-> "done", analysis_id |-> @.analysis_id, committed |-> TRUE,
                     response |-> Saved]]
       ELSE /\ UNCHANGED pending_analyses
            /\ sv_proc' = [sv_proc EXCEPT ![s] =
                    [pc |-> "done", analysis_id |-> @.analysis_id, committed |-> TRUE,
                     response |-> FailedToSave]]
    /\ UNCHANGED <<served, db_analyses, web_call, web_pc, web_resp, web_clock,
                   encVars, preVars, kVars, clVars, pfVars, runVars,
                   clsVars, epsVars, memVars, vizVars, tkVars>>

\* A handler that looks the entry up and renders it when there is one.
View(endpoint, analysis_id) ==
    /\ Len(served) < MaxViews
    /\ analysis_id \in DOMAIN pending_analyses
    /\ served' = Append(served, Handout(endpoint, pending_analyses[analysis_id], web_clock))
    /\ UNCHANGED <<sv_proc, db_analyses, webVars, encVars, preVars, kVars, clVars, pfVars,
                   runVars, clsVars, epsVars, memVars, vizVars, tkVars>>

\* analysis_detail, lines 90-104: the pending entry is rendered.
AnalysisDetail == \E analysis_id \in Requests : View("detail", analysis_id)

\* get_insights and regenerate_insights, lines 120-144.
Insights == \E analysis_id \in Requests : View("insights", analysis_id)

NextPending ==
    \/ \E r \in Requests : WebDownloaded(r)
    \/ \E r \in Requests : WebRunDone(r)
    \/ \E r \in Requests : WebChartsDone(r)
    \/ Tick
    \/ \E s \in Savers : SaveRequest(s)
    \/ \E s \in Savers : SaveAnalysis(s)
    \/ \E s \in Savers : SaveResume(s)
    \/ AnalysisDetail
    \/ Insights

SpecPending == InitPending /\ [][NextPending]_vars

-----------------------------------------------------------------------------
(* Claims about pending analyses, checked under SpecPending.                *)

\* C29 (as claimed): under any interleaving of two saves of the same id, or
\* of a save with an analyze request that evicts expired entries, a pending
\* analysis is written to the database at most once, and a save request
\* whose commit succeeded answers with the success message and leaves the id
\* absent from pending_analyses.
C29_SaveOnceAndAnswered ==
    /\ \A id \in DOMAIN db_analyses : db_analyses[id] <= 1
    /\ \A s \in Savers :
          (sv_proc[s].pc = "done" /\ sv_proc[s].committed) =>
              /\ sv_proc[s].response = Saved
              /\ sv_proc[s].analysis_id \notin DOMAIN pending_analyses

\* C30 (as claimed): the detail, insights and save endpoints never return or
\* persist a pending_analyses entry that was more than 3600 seconds old when
\* the handler read it, whatever requests happened in between.
C30_ServedWithinTtl ==
    \A i \in DOMAIN served : served[i].age <= PendingTtl

====
